---- MODULE Spec2Model ----
(***************************************************************************)
(* ProxyForge background service worker: the ProxyManager rotation         *)
(* controller (src/src/extension/background.js) as a state machine.        *)
(*                                                                         *)
(* Strings are TLA+ strings; URL parsing follows the part of the WHATWG    *)
(* URL parser that `new URL(url)` runs for the sample URLs below (scheme,  *)
(* authority, userinfo, port, host lower-casing).  IPv6 literals, IPv4     *)
(* canonicalisation, punycode and percent-encoding are outside the sample  *)
(* set and are not modelled.                                               *)
(***************************************************************************)
EXTENDS Integers, Sequences, FiniteSets, TLC

(***************************************************************************)
(* Bounds of the model.                                                    *)
(***************************************************************************)
MaxTargets == 2
MaxThreshold == 3
MaxRotations == 3
MaxRequests == 2
MaxObserved == 6

(***************************************************************************)
(* String helpers (String.prototype.includes / startsWith / toLowerCase).  *)
(***************************************************************************)
CharAt(s, i) == SubSeq(s, i, i)

includes(s, sub) ==
    \E i \in 1..(Len(s) - Len(sub) + 1) : SubSeq(s, i, i + Len(sub) - 1) = sub

startsWith(s, p) == Len(s) >= Len(p) /\ SubSeq(s, 1, Len(p)) = p

UpperAlpha == "ABCDEFGHIJKLMNOPQRSTUVWXYZ"
LowerAlpha == "abcdefghijklmnopqrstuvwxyz"
Digits == "0123456789"

IsUpper(c) == \E i \in 1..Len(UpperAlpha) : CharAt(UpperAlpha, i) = c
IsLower(c) == \E i \in 1..Len(LowerAlpha) : CharAt(LowerAlpha, i) = c
IsDigit(c) == \E i \in 1..Len(Digits) : CharAt(Digits, i) = c
IsAlpha(c) == IsUpper(c) \/ IsLower(c)

LowerChar(c) ==
    IF IsUpper(c)
    THEN CharAt(LowerAlpha, CHOOSE i \in 1..Len(UpperAlpha) : CharAt(UpperAlpha, i) = c)
    ELSE c

RECURSIVE toLowerCase(_)
toLowerCase(s) ==
    IF Len(s) = 0 THEN ""
    ELSE LowerChar(CharAt(s, 1)) \o toLowerCase(SubSeq(s, 2, Len(s)))

\* Position of the first character of s that is in chars, 0 if there is none.
FirstOf(s, chars) ==
    LET hits == {i \in 1..Len(s) : CharAt(s, i) \in chars}
    IN  IF hits = {} THEN 0 ELSE CHOOSE i \in hits : \A j \in hits : i <= j

\* Position of the last character of s that is in chars, 0 if there is none.
LastOf(s, chars) ==
    LET hits == {i \in 1..Len(s) : CharAt(s, i) \in chars}
    IN  IF hits = {} THEN 0 ELSE CHOOSE i \in hits : \A j \in hits : i >= j

\* Position of the first character of s that is NOT in chars, Len(s)+1 if none.
FirstNotOf(s, chars) ==
    LET hits == {i \in 1..Len(s) : CharAt(s, i) \notin chars}
    IN  IF hits = {} THEN Len(s) + 1 ELSE CHOOSE i \in hits : \A j \in hits : i <= j

From(s, i) == SubSeq(s, i, Len(s))
UpTo(s, i) == SubSeq(s, 1, i)

\* Leading and trailing spaces are stripped before parsing.
LastNotOf(s, chars) ==
    LET hits == {i \in 1..Len(s) : CharAt(s, i) \notin chars}
    IN  IF hits = {} THEN 0 ELSE CHOOSE i \in hits : \A j \in hits : i >= j

TrimSpaces(s) == SubSeq(s, FirstNotOf(s, {" "}), LastNotOf(s, {" "}))

(***************************************************************************)
(* new URL(url) without a base: either throws (ok = FALSE) or yields the   *)
(* protocol (scheme plus ":") and the hostname.                            *)
(***************************************************************************)
SpecialSchemes == {"http", "https", "ftp", "ws", "wss", "file"}
ForbiddenHostChars == {" ", "<", ">", "^", "|"}
UrlFailure == [ok |-> FALSE, protocol |-> "", hostname |-> "", port |-> ""]

IsSchemeChar(c) == IsAlpha(c) \/ IsDigit(c) \/ c \in {"+", "-", "."}

\* A port is a decimal number of at most 16 bits; url.port is "" when the
\* port is absent or is the default port of the scheme.
MaxPort == 65535
NoPort == 65536

DigitValue(c) == CHOOSE d \in 0..9 : CharAt(Digits, d + 1) = c

RECURSIVE StrToNat(_)
StrToNat(s) ==
    IF s = "" THEN 0
    ELSE 10 * StrToNat(UpTo(s, Len(s) - 1)) + DigitValue(CharAt(s, Len(s)))

DefaultPort(scheme) ==
    IF scheme \in {"http", "ws"} THEN 80
    ELSE IF scheme \in {"https", "wss"} THEN 443
    ELSE IF scheme = "ftp" THEN 21
    ELSE NoPort

SerializePort(scheme, port) ==
    IF port = "" THEN ""
    ELSE IF StrToNat(port) = DefaultPort(scheme) THEN ""
    ELSE ToString(StrToNat(port))

\* The host of an authority once userinfo and port are split off: fails on a
\* port that is not a number, on a forbidden host character, on an empty host
\* of a special scheme other than file, and on an empty host with userinfo
\* or port.  The host of a special scheme is lower-cased.
ParseHost(scheme, host, port, hasUserOrPort) ==
    IF \E i \in 1..Len(port) : ~IsDigit(CharAt(port, i)) THEN UrlFailure
    ELSE IF \E i \in 1..Len(host) : CharAt(host, i) \in ForbiddenHostChars
    THEN UrlFailure
    ELSE IF host = "" /\ (hasUserOrPort \/ (scheme \in SpecialSchemes /\ scheme # "file"))
    THEN UrlFailure
    ELSE IF port # "" /\ StrToNat(port) > MaxPort THEN UrlFailure
    ELSE [ok |-> TRUE, protocol |-> scheme \o ":",
          hostname |-> IF scheme \in SpecialSchemes THEN toLowerCase(host) ELSE host,
          port |-> SerializePort(scheme, port)]

ParseHostPort(scheme, hostport, colon, hasUser) ==
    IF colon = 0
    THEN ParseHost(scheme, hostport, "", hasUser)
    ELSE ParseHost(scheme, UpTo(hostport, colon - 1), From(hostport, colon + 1), TRUE)

SplitUserinfo(scheme, authority, at) ==
    ParseHostPort(scheme, From(authority, at + 1),
                  FirstOf(From(authority, at + 1), {":"}), at > 0)

ParseAuthority(scheme, authority) ==
    SplitUserinfo(scheme, authority, LastOf(authority, {"@"}))

\* The authority is what precedes the first path, query or fragment delimiter.
CutAuthority(scheme, body, stop) ==
    ParseAuthority(scheme, IF stop = 0 THEN body ELSE UpTo(body, stop - 1))

\* After "scheme:": a special scheme other than file skips every leading
\* slash or backslash; any other scheme has an authority only after "//".
ParseAfterScheme(scheme, rest) ==
    IF scheme \in SpecialSchemes /\ scheme # "file"
    THEN CutAuthority(scheme, From(rest, FirstNotOf(rest, {"/", "\\"})),
                      FirstOf(From(rest, FirstNotOf(rest, {"/", "\\"})),
                              {"/", "\\", "?", "#"}))
    ELSE IF startsWith(rest, "//")
    THEN CutAuthority(scheme, From(rest, 3), FirstOf(From(rest, 3), {"/", "?", "#"}))
    ELSE [ok |-> TRUE, protocol |-> scheme \o ":", hostname |-> "", port |-> ""]

ParseScheme(url, colon) ==
    IF colon <= 1 THEN UrlFailure
    ELSE IF ~IsAlpha(CharAt(url, 1)) THEN UrlFailure
    ELSE IF \E i \in 1..(colon - 1) : ~IsSchemeChar(CharAt(url, i)) THEN UrlFailure
    ELSE ParseAfterScheme(toLowerCase(UpTo(url, colon - 1)), From(url, colon + 1))

ParseTrimmed(url) == ParseScheme(url, FirstOf(url, {":"}))

ParseURL(raw) == ParseTrimmed(TrimSpaces(raw))

(***************************************************************************)
(* ProxyManager.shouldAutoRotate.  The body runs inside try { } and may    *)
(* throw (threw = TRUE); the catch turns every throw into `return false`.  *)
(***************************************************************************)
Returned(b) == [threw |-> FALSE, ret |-> b]
Thrown == [threw |-> TRUE, ret |-> FALSE]

\* Variant: the whitelist is consulted before the blacklist.
shouldAutoRotateParsed_whitelistFirst(url, parsedUrl, whitelist, blacklist) ==
    IF ~parsedUrl.ok THEN Thrown
    ELSE IF ~startsWith(parsedUrl.protocol, "http") THEN Returned(FALSE)
    ELSE IF \E i \in 1..Len(whitelist) : includes(parsedUrl.hostname, whitelist[i])
    THEN Returned(TRUE)
    ELSE IF \E i \in 1..Len(blacklist) :
                \/ includes(parsedUrl.hostname, blacklist[i])
                \/ includes(url, blacklist[i])
    THEN Returned(FALSE)
    ELSE Returned(Len(whitelist) = 0)

\* Variant: the whitelist is matched against the full URL.
shouldAutoRotateParsed_whitelistOnUrl(url, parsedUrl, whitelist, blacklist) ==
    IF ~parsedUrl.ok THEN Thrown
    ELSE IF ~startsWith(parsedUrl.protocol, "http") THEN Returned(FALSE)
    ELSE IF \E i \in 1..Len(blacklist) :
                \/ includes(parsedUrl.hostname, blacklist[i])
                \/ includes(url, blacklist[i])
    THEN Returned(FALSE)
    ELSE IF Len(whitelist) = 0 THEN Returned(TRUE)
    ELSE Returned(\E i \in 1..Len(whitelist) : includes(url, whitelist[i]))

\* The statements after `new URL(url)`, which throws when parsing fails;
\* domain is parsedUrl.hostname, protocol is parsedUrl.protocol.
shouldAutoRotateParsed(url, parsedUrl, whitelist, blacklist) ==
    IF ~parsedUrl.ok THEN Thrown
    ELSE IF ~startsWith(parsedUrl.protocol, "http") THEN Returned(FALSE)
    ELSE IF \E i \in 1..Len(blacklist) :
                \/ includes(parsedUrl.hostname, blacklist[i])
                \/ includes(url, blacklist[i])
    THEN Returned(FALSE)
    ELSE IF Len(whitelist) = 0 THEN Returned(TRUE)
    ELSE IF \E i \in 1..Len(whitelist) : includes(parsedUrl.hostname, whitelist[i])
    THEN Returned(TRUE)
    ELSE Returned(FALSE)

shouldAutoRotateTry(url, whitelist, blacklist) ==
    shouldAutoRotateParsed(url, ParseURL(url), whitelist, blacklist)

shouldAutoRotate(url, whitelist, blacklist) ==
    LET r == shouldAutoRotateTry(url, whitelist, blacklist)
    IN  IF r.threw THEN Returned(FALSE) ELSE r

(***************************************************************************)
(* Sample inputs of shouldAutoRotate.                                      *)
(***************************************************************************)
Urls ==
    { "https://shop.com", "https://shop.com/cart?ref=localhost",
      "http://localhost:8080/x", "http://127.0.0.1/", "HTTPS://SHOP.COM/a",
      "https://user@bank.com/", "http:shop.com", " https://shop.com ",
      "ftp://x.com", "ws://shop.com", "httpx://shop.com", "http-alt://bank.com/",
      "chrome://extensions", "chrome-extension://abc/popup.html",
      "file:///etc/passwd", "about:blank", "localhost:8080",
      "not-a-valid-url", "shop.com", "", "https://", "https://bank.com:x1/",
      "https://my shop.com/", "//shop.com" }

DefaultBlacklist == <<"localhost", "127.0.0.1", "chrome://", "chrome-extension://">>

Whitelists ==
    { <<>>, <<"shop">>, <<"bank.com">>, <<"bank.com", "shop">>, <<"localhost">>,
      <<"SHOP">>, <<"x.com">> }

Blacklists ==
    { DefaultBlacklist, <<>>, <<"shop.com">>, <<"cart">>, <<"bank", "ref=">>, <<"SHOP">> }

(***************************************************************************)
(* Values.  A JavaScript number that may be NaN is an integer or the       *)
(* marker NaN; arithmetic and comparison follow IEEE 754: NaN propagates   *)
(* and every comparison with NaN is false.                                 *)
(***************************************************************************)
NaN == -1

jsAdd(a, b) == IF a = NaN \/ b = NaN THEN NaN ELSE a + b
jsMod(a, n) == IF a = NaN \/ n = NaN \/ n = 0 THEN NaN ELSE a % n
jsGe(a, b) == a # NaN /\ b # NaN /\ a >= b

AllTargets == <<"A", "B", "C", "D">>
TargetLists == {SubSeq(AllTargets, 1, n) : n \in 0..MaxTargets}
DefaultEndpoints == <<"Local AWS Proxy">>
RotationModes == {"sequential", "random", "roundrobin"}
Thresholds == 1..MaxThreshold
GatewayUrls == {"https://gw1.example.com"}
Tabs == {1, 2}
NavUrls ==
    { "https://shop.com", "HTTPS://SHOP.COM/a", "https://user@bank.com/",
      "http://localhost:8080/x", "ftp://x.com", "not-a-valid-url", "" }
WhitelistDomains == {"shop"}

\* chrome.proxy.settings: the value last applied to the host.
Cleared == [mode |-> "cleared", rule |-> ""]
Direct == [mode |-> "direct", rule |-> ""]
FixedServers(proxy) == [mode |-> "fixed_servers", rule |-> proxy]
PacScript(gateway) == [mode |-> "pac_script", rule |-> gateway]
LocalProxyRule == "127.0.0.1:8888"

VARIABLES
    pm,       \* the ProxyManager instance (its fields, named as in the source)
    chrome,   \* the host: proxy settings, tab listeners, tab lookups in flight
    observed, \* history: handleRequest calls made so far (SpecRequests)
    last,     \* history: the last step of SpecNav and the instance before it
    sar,      \* arguments and result of a shouldAutoRotate call (SpecSAR)
    reg,      \* APIGatewayFactory, its APIGateway instances, activeGateways
    cm,       \* a CacheManager, the clock, and its last call
    gw,       \* an APIGateway handling one request (createHandler)
    req,      \* an APIGateway building a request (buildRequest)
    rl,       \* a RateLimiter, its queue, its drain loop and the clock
    conn,     \* a LocalProxyConnector and its status call
    msg,      \* the last message given to the onMessage listener and its answer
    boot      \* init() of a starting worker: where it is suspended, what it loads

vars == <<pm, chrome, observed, last, sar, reg, cm, gw, req, rl, conn, msg, boot>>

\* The rotation controller and the gateway pipeline as separate groups.
controllerVars == <<pm, chrome, observed, last, sar>>
gatewayVars == <<reg, cm, gw>>
peripheralVars == <<req, rl, conn, msg, boot>>

\* The state a method reads and writes: the instance and the host.
World == [pm |-> pm, chrome |-> chrome]

(***************************************************************************)
(* ProxyManager constructor and the host before the worker starts.         *)
(***************************************************************************)
constructor ==
    [ proxyEndpoints |-> <<>>,
      currentProxyIndex |-> 0,
      isEnabled |-> FALSE,
      rotationMode |-> "sequential",
      requestCount |-> 0,
      rotateEveryNRequests |-> 1,
      apiGateways |-> <<>>,
      useLocalProxy |-> TRUE,
      localProxyConnected |-> FALSE,
      autoRotateMode |-> FALSE,
      autoRotateWhitelist |-> <<>>,
      autoRotateBlacklist |-> DefaultBlacklist,
      tabProxyMap |-> <<>>,
      tabUpdateListener |-> FALSE,
      tabActivatedListener |-> FALSE,
      stats |-> [totalRequests |-> 0, rotations |-> 0] ]

chromeMock ==
    [ proxySettings |-> Cleared,
      onUpdated |-> 0,
      onActivated |-> 0,
      tabsGet |-> {} ]

(***************************************************************************)
(* generateProxyConfig.  proxyEndpoints[currentProxyIndex] is undefined    *)
(* when the index is NaN or past the end, and reading proxy.type throws.   *)
(***************************************************************************)
IndexInRange(p) ==
    /\ p.currentProxyIndex # NaN
    /\ p.currentProxyIndex < Len(p.proxyEndpoints)

getProxyConfig(p) ==
    IF ~p.localProxyConnected THEN Direct ELSE FixedServers(LocalProxyRule)

generateProxyConfig(p) ==
    IF p.useLocalProxy /\ p.localProxyConnected
    THEN [threw |-> FALSE, config |-> getProxyConfig(p)]
    ELSE IF Len(p.proxyEndpoints) = 0
    THEN [threw |-> FALSE, config |-> Direct]
    ELSE IF ~IndexInRange(p)
    THEN [threw |-> TRUE, config |-> Direct]
    ELSE IF Len(p.apiGateways) > 0
    THEN [threw |-> FALSE,
          config |-> PacScript(p.apiGateways[(p.currentProxyIndex % Len(p.apiGateways)) + 1])]
    ELSE [threw |-> FALSE,
          config |-> FixedServers(p.proxyEndpoints[p.currentProxyIndex + 1])]

\* Variant: the routing is applied whether or not rotation is enabled.
updateProxy_unguarded(w) ==
    IF generateProxyConfig(w.pm).threw THEN w
    ELSE [w EXCEPT !.chrome.proxySettings = generateProxyConfig(w.pm).config]

\* updateProxy is async without an await: it runs to its end when called, and
\* a throw inside it rejects the promise nobody awaits.
updateProxy(w) ==
    IF ~w.pm.isEnabled
    THEN [w EXCEPT !.chrome.proxySettings = Cleared]
    ELSE LET g == generateProxyConfig(w.pm)
         IN  IF g.threw THEN w
             ELSE [w EXCEPT !.chrome.proxySettings = g.config]

(***************************************************************************)
(* rotateProxy.  rnd is the value of Math.floor(Math.random() * N).        *)
(***************************************************************************)
RandomPicks(p) ==
    IF Len(p.proxyEndpoints) = 0 THEN {0} ELSE 0..(Len(p.proxyEndpoints) - 1)

nextIndex(p, rnd) ==
    IF p.rotationMode = "sequential"
    THEN jsMod(jsAdd(p.currentProxyIndex, 1), Len(p.proxyEndpoints))
    ELSE IF p.rotationMode = "random" THEN rnd
    ELSE p.currentProxyIndex

rotateProxy(w, rnd) ==
    updateProxy([w EXCEPT !.pm.currentProxyIndex = nextIndex(w.pm, rnd),
                          !.pm.stats.rotations = @ + 1])

enable(w) == updateProxy([w EXCEPT !.pm.isEnabled = TRUE])

disable(w) == [w EXCEPT !.pm.isEnabled = FALSE, !.chrome.proxySettings = Cleared]

\* Variant: the threshold must be exceeded, not reached.
handleRequest_exceeds(w, rnd) ==
    IF ~w.pm.isEnabled THEN w
    ELSE LET counted == [w EXCEPT !.pm.requestCount = @ + 1,
                                  !.pm.stats.totalRequests = @ + 1]
         IN  IF counted.pm.requestCount > counted.pm.rotateEveryNRequests
             THEN [rotateProxy(counted, rnd) EXCEPT !.pm.requestCount = 0]
             ELSE counted

handleRequest(w, rnd) ==
    IF ~w.pm.isEnabled THEN w
    ELSE LET counted == [w EXCEPT !.pm.requestCount = @ + 1,
                                  !.pm.stats.totalRequests = @ + 1]
         IN  IF counted.pm.requestCount >= counted.pm.rotateEveryNRequests
             THEN [rotateProxy(counted, rnd) EXCEPT !.pm.requestCount = 0]
             ELSE counted

indexOf(q, x) ==
    IF \E i \in 1..Len(q) : q[i] = x
    THEN CHOOSE i \in 1..Len(q) : q[i] = x /\ \A j \in 1..(i - 1) : q[j] # x
    ELSE 0

splice(q, i) == SubSeq(q, 1, i - 1) \o SubSeq(q, i + 1, Len(q))

addAPIGateway(w, gatewayUrl) ==
    IF indexOf(w.pm.apiGateways, gatewayUrl) = 0
    THEN LET added == [w EXCEPT !.pm.apiGateways = Append(@, gatewayUrl)]
         IN  IF added.pm.isEnabled THEN updateProxy(added) ELSE added
    ELSE w

removeAPIGateway(w, gatewayUrl) ==
    LET index == indexOf(w.pm.apiGateways, gatewayUrl)
    IN  IF index > 0
        THEN LET removed == [w EXCEPT !.pm.apiGateways = splice(@, index)]
             IN  IF removed.pm.isEnabled THEN updateProxy(removed) ELSE removed
        ELSE w

updateProxyEndpoints(w, endpoints) ==
    LET assigned == [w EXCEPT !.pm.proxyEndpoints = endpoints]
        clamped == IF jsGe(assigned.pm.currentProxyIndex, Len(endpoints))
                   THEN [assigned EXCEPT !.pm.currentProxyIndex = 0]
                   ELSE assigned
    IN  IF clamped.pm.isEnabled THEN updateProxy(clamped) ELSE clamped

(***************************************************************************)
(* Auto-rotation: tab monitoring and the navigation handler.               *)
(* tabUpdateListener / tabActivatedListener hold a listener (TRUE) or null *)
(* (FALSE); chrome.onUpdated / chrome.onActivated count the listeners the  *)
(* event source holds.                                                     *)
(***************************************************************************)
\* Variant: listeners are added without looking at the ones already held.
startTabMonitoring_unguarded(w) ==
    [w EXCEPT !.pm.tabUpdateListener = TRUE, !.chrome.onUpdated = @ + 1,
              !.pm.tabActivatedListener = TRUE, !.chrome.onActivated = @ + 1]

startTabMonitoring(w) ==
    LET a == IF ~w.pm.tabUpdateListener
             THEN [w EXCEPT !.pm.tabUpdateListener = TRUE, !.chrome.onUpdated = @ + 1]
             ELSE w
    IN  IF ~a.pm.tabActivatedListener
        THEN [a EXCEPT !.pm.tabActivatedListener = TRUE, !.chrome.onActivated = @ + 1]
        ELSE a

stopTabMonitoring(w) ==
    LET a == IF w.pm.tabUpdateListener
             THEN [w EXCEPT !.pm.tabUpdateListener = FALSE, !.chrome.onUpdated = @ - 1]
             ELSE w
    IN  IF a.pm.tabActivatedListener
        THEN [a EXCEPT !.pm.tabActivatedListener = FALSE, !.chrome.onActivated = @ - 1]
        ELSE a

enableAutoRotate(w) == startTabMonitoring([w EXCEPT !.pm.autoRotateMode = TRUE])

disableAutoRotate(w) == stopTabMonitoring([w EXCEPT !.pm.autoRotateMode = FALSE])

\* Map.set(tabId, domain)
MapSet(map, tabId, domain) ==
    [t \in (DOMAIN map) \cup {tabId} |-> IF t = tabId THEN domain ELSE map[t]]

\* shouldAutoRotate and new URL(url).hostname for the navigation samples,
\* evaluated once per (url, whitelist) under the blacklist of the constructor.
NavWhitelists == {<<>>, <<"shop">>}
NavDecision ==
    [url \in NavUrls |->
        [whitelist \in NavWhitelists |->
            shouldAutoRotate(url, whitelist, DefaultBlacklist).ret]]
NavHostname == [url \in NavUrls |-> ParseURL(url).hostname]

autoRotateDecision(p, url) ==
    IF /\ url \in NavUrls
       /\ p.autoRotateWhitelist \in NavWhitelists
       /\ p.autoRotateBlacklist = DefaultBlacklist
    THEN NavDecision[url][p.autoRotateWhitelist]
    ELSE shouldAutoRotate(url, p.autoRotateWhitelist, p.autoRotateBlacklist).ret

hostnameOf(url) ==
    IF url \in NavUrls THEN NavHostname[url] ELSE ParseURL(url).hostname

\* Variant: an eligible URL rotates without comparing domains.
handleTabUrlChange_alwaysRotates(w, tabId, url, rnd) ==
    IF ~autoRotateDecision(w.pm, url)
    THEN w
    ELSE [rotateProxy(w, rnd) EXCEPT
              !.pm.tabProxyMap = MapSet(@, tabId, hostnameOf(url))]

\* Variant: the domain is compared without asking shouldAutoRotate.
handleTabUrlChange_unfiltered(w, tabId, url, rnd) ==
    IF tabId \in DOMAIN w.pm.tabProxyMap /\ w.pm.tabProxyMap[tabId] = hostnameOf(url)
    THEN w
    ELSE [rotateProxy(w, rnd) EXCEPT
              !.pm.tabProxyMap = MapSet(@, tabId, hostnameOf(url))]

handleTabUrlChange(w, tabId, url, rnd) ==
    IF ~autoRotateDecision(w.pm, url)
    THEN w
    ELSE LET domain == hostnameOf(url)
             known == tabId \in DOMAIN w.pm.tabProxyMap
         IN  IF known /\ w.pm.tabProxyMap[tabId] = domain
             THEN w
             ELSE [rotateProxy(w, rnd) EXCEPT
                       !.pm.tabProxyMap = MapSet(@, tabId, domain)]

\* The chrome.tabs.onUpdated listener body (changeInfo.url is falsy when "").
tabUpdateListener(w, tabId, url, rnd) ==
    IF url # "" /\ w.pm.autoRotateMode
    THEN handleTabUrlChange(w, tabId, url, rnd)
    ELSE w

\* The chrome.tabs.onActivated listener body: starts chrome.tabs.get.
tabActivatedListener(w, tabId) ==
    IF w.pm.autoRotateMode
    THEN [w EXCEPT !.chrome.tabsGet = @ \cup {tabId}]
    ELSE w

\* The chrome.tabs.get callback, with the URL the tab has by then.
tabsGetCallback(w, tabId, url, rnd) ==
    LET got == [w EXCEPT !.chrome.tabsGet = @ \ {tabId}]
    IN  IF url # "" THEN handleTabUrlChange(got, tabId, url, rnd) ELSE got

\* An addToWhitelist that pushes without looking for the domain.
addToWhitelist_unguarded(w, domain) ==
    [w EXCEPT !.pm.autoRotateWhitelist = Append(@, domain)]

addToWhitelist(w, domain) ==
    IF indexOf(w.pm.autoRotateWhitelist, domain) = 0
    THEN [w EXCEPT !.pm.autoRotateWhitelist = Append(@, domain)]
    ELSE w

removeFromWhitelist(w, domain) ==
    LET index == indexOf(w.pm.autoRotateWhitelist, domain)
    IN  IF index > 0
        THEN [w EXCEPT !.pm.autoRotateWhitelist = splice(@, index)]
        ELSE w

(***************************************************************************)
(* init(): the configuration read from storage, then the connection check, *)
(* then enable() / enableAutoRotate() as configured.  A configuration key  *)
(* that is absent is has... = FALSE, "" or FALSE.                           *)
(***************************************************************************)
Configs ==
    { [ hasProxyEndpoints |-> FALSE, proxyEndpoints |-> <<>>, apiGateways |-> <<>>,
        isEnabled |-> FALSE, rotationMode |-> "", autoRotateMode |-> FALSE,
        autoRotateWhitelist |-> <<>>, useLocalProxy |-> TRUE ],
      [ hasProxyEndpoints |-> TRUE, proxyEndpoints |-> <<>>, apiGateways |-> <<>>,
        isEnabled |-> FALSE, rotationMode |-> "", autoRotateMode |-> FALSE,
        autoRotateWhitelist |-> <<>>, useLocalProxy |-> FALSE ],
      [ hasProxyEndpoints |-> TRUE, proxyEndpoints |-> <<"A", "B">>, apiGateways |-> <<>>,
        isEnabled |-> TRUE, rotationMode |-> "random", autoRotateMode |-> TRUE,
        autoRotateWhitelist |-> <<"shop">>, useLocalProxy |-> FALSE ],
      [ hasProxyEndpoints |-> FALSE, proxyEndpoints |-> <<>>, apiGateways |-> <<>>,
        isEnabled |-> TRUE, rotationMode |-> "", autoRotateMode |-> TRUE,
        autoRotateWhitelist |-> <<>>, useLocalProxy |-> TRUE ] }

\* Outcomes of the GET /status call of checkConnection.
CheckOutcomes == {"ok", "notOk", "unreachable"}

initLoad(w, config) ==
    [w EXCEPT
        !.pm.proxyEndpoints =
            IF config.hasProxyEndpoints THEN config.proxyEndpoints ELSE DefaultEndpoints,
        !.pm.apiGateways = config.apiGateways,
        !.pm.isEnabled = config.isEnabled,
        !.pm.rotationMode =
            IF config.rotationMode = "" THEN "sequential" ELSE config.rotationMode,
        !.pm.autoRotateMode = config.autoRotateMode,
        !.pm.autoRotateWhitelist = config.autoRotateWhitelist,
        !.pm.useLocalProxy = config.useLocalProxy]

\* LocalProxyConnector.checkConnection: a response that is not ok leaves the
\* flag as it is (and the method returns undefined).
checkConnection(w, outcome) ==
    IF outcome = "ok" THEN [w EXCEPT !.pm.localProxyConnected = TRUE]
    ELSE IF outcome = "unreachable" THEN [w EXCEPT !.pm.localProxyConnected = FALSE]
    ELSE w

initFinish(w) ==
    LET a == IF w.pm.isEnabled THEN enable(w) ELSE w
    IN  IF a.pm.autoRotateMode THEN enableAutoRotate(a) ELSE a

\* init() run from the constructed instance with no command in between.
\* connectToLocalProxy throws on an undefined result (outcome notOk), which
\* ends init() before enable() and enableAutoRotate().
Started(config, outcome) ==
    LET loaded == initLoad([pm |-> constructor, chrome |-> chromeMock], config)
    IN  IF ~loaded.pm.useLocalProxy THEN initFinish(loaded)
        ELSE IF outcome = "notOk" THEN checkConnection(loaded, outcome)
        ELSE initFinish(checkConnection(loaded, outcome))

\* init() as a process: suspended at chrome.storage.local.get ("loading",
\* config being what the get will answer), at connectToLocalProxy
\* ("connecting"), ended ("finished") or ended by a throw ("failed").
\* switched and targets are history: the last enable/disable command and
\* the last list an updateProxies command set.
NotCommanded == <<"none">>
Boot(pc, config) ==
    [pc |-> pc, config |-> config, switched |-> "none", targets |-> NotCommanded,
     commands |-> 0]

BootIdle == Boot("finished", CHOOSE config \in Configs : ~config.hasProxyEndpoints /\ ~config.isEnabled)

(***************************************************************************)
(* APIGatewayFactory (the gateway registry) and the construction of an     *)
(* APIGateway.  A configuration object is a function from the keys it      *)
(* holds to their values; caching is `false` (CachingOff) or {ttl,maxSize}.*)
(***************************************************************************)
MaxClients == 2
MaxInterceptors == 2
MaxUses == 1

CachingOff == [on |-> FALSE, ttl |-> 0, maxSize |-> 0]
Caching(ttl, maxSize) == [on |-> TRUE, ttl |-> ttl, maxSize |-> maxSize]
NoHeaders == "{}"
NoConfig == <<>>

\* The values `x || default` replaces: 0 and false (objects are truthy).
Falsy(key, value) ==
    IF key \in {"retries", "timeout", "ttl", "maxSize", "maxRequests", "windowMs"}
    THEN value = 0
    ELSE IF key = "caching" THEN ~value.on
    ELSE FALSE

\* config[key] || default, config[key] being undefined for an absent key.
OrDefault(config, key, default) ==
    IF key \in DOMAIN config /\ ~Falsy(key, config[key]) THEN config[key] ELSE default

\* { ...a, ...b }
Spread(a, b) ==
    [k \in (DOMAIN a) \cup (DOMAIN b) |-> IF k \in DOMAIN b THEN b[k] ELSE a[k]]

\* url.origin: scheme, host and non-default port of http, https, ws, wss and
\* ftp URLs; Chrome gives "file://" to file URLs and "null" to the rest.
OriginOf(parsed) ==
    IF parsed.protocol \in {"http:", "https:", "ws:", "wss:", "ftp:"}
    THEN parsed.protocol \o "//" \o parsed.hostname
             \o (IF parsed.port = "" THEN "" ELSE ":" \o parsed.port)
    ELSE IF parsed.protocol = "file:" THEN "file://"
    ELSE "null"

\* Sample URLs of the registry calls.
RegUrls ==
    { "https://api.example.com/v1?x=1", "https://API.example.com:443/graphql",
      "https://api.example.com:8443/", "http://api.example.com",
      "foo://a.example/x", "bar://b.example", "not-a-valid-url" }

\* new URL(u) for the samples and for the origins derived from them,
\* evaluated once.
RegParsed == [u \in RegUrls |-> ParseURL(u)]
RegOrigins == {OriginOf(RegParsed[u]) : u \in {v \in RegUrls : RegParsed[v].ok}}
RegOriginParsed == [o \in RegOrigins |-> ParseURL(o)]
RegOrigin ==
    [u \in RegUrls \cup RegOrigins |->
        OriginOf(IF u \in RegUrls THEN RegParsed[u] ELSE RegOriginParsed[u])]

parseUrl(url) ==
    IF url \in RegUrls THEN RegParsed[url]
    ELSE IF url \in RegOrigins THEN RegOriginParsed[url]
    ELSE ParseURL(url)

\* new URL(url).origin of a URL that parses.
originOf(url) ==
    IF url \in DOMAIN RegOrigin THEN RegOrigin[url] ELSE OriginOf(ParseURL(url))

\* APIGateway.normalizeUrl for an origin (no trailing path): an origin that
\* does not parse becomes a relative path.
normalizeUrl(url) ==
    IF parseUrl(url).ok THEN originOf(url)
    ELSE IF startsWith(url, "/") THEN url
    ELSE "/" \o url

\* The config an APIGateway keeps.
APIGatewayConfig(config) ==
    [ timeout |-> OrDefault(config, "timeout", 30000),
      retries |-> OrDefault(config, "retries", 3),
      headers |-> OrDefault(config, "headers", NoHeaders),
      caching |-> OrDefault(config, "caching", CachingOff) ]

\* new APIGateway(baseUrl, config); constructedFor remembers the URL whose
\* create call constructed the instance.
APIGateway(baseUrl, config, url) ==
    [ baseUrl |-> normalizeUrl(baseUrl),
      config |-> APIGatewayConfig(config),
      endpoints |-> {},
      requests |-> 0,
      errors |-> 0,
      requestInterceptors |-> 0,
      responseInterceptors |-> 0,
      constructedFor |-> url ]

\* The templates the factory registers in its constructor.
Templates ==
    [ rest |-> [headers |-> "Accept", caching |-> Caching(300000, 50),
                retries |-> 3, timeout |-> 30000],
      graphql |-> [headers |-> "Content-Type", retries |-> 2, timeout |-> 60000],
      websocket |-> [retries |-> 5, timeout |-> 10000] ]

TemplateNames == {"rest", "graphql", "unknown"}
TemplateUrls == {"https://api.example.com/v1?x=1", "http://api.example.com"}

\* Sample configs and overrides, by name.
ConfigNames == {"none", "retries0", "retries1", "cachingOff"}
ConfigOf(name) ==
    CASE name = "none" -> NoConfig
      [] name = "retries0" -> [retries |-> 0]
      [] name = "retries1" -> [retries |-> 1, timeout |-> 5000]
      [] name = "cachingOff" -> [caching |-> CachingOff, headers |-> "X-Custom"]

\* A call's outcome: the factory after it, what it threw or returned.
Outcome(r, threw, gateway, constructed) ==
    [r |-> r, threw |-> threw, gateway |-> gateway, constructed |-> constructed]

\* APIGatewayFactory.create: an instance is its position in r.clients.
create(r, url, config, constructedFor) ==
    IF ~parseUrl(url).ok THEN Outcome(r, TRUE, 0, FALSE)
    ELSE LET normalizedUrl == originOf(url)
         IN  IF normalizedUrl \in DOMAIN r.gateways
             THEN Outcome(r, FALSE, r.gateways[normalizedUrl], FALSE)
             ELSE Outcome([r EXCEPT
                              !.clients = Append(@, APIGateway(normalizedUrl, config,
                                                               constructedFor)),
                              !.gateways = MapSet(@, normalizedUrl, Len(r.clients) + 1)],
                          FALSE, Len(r.clients) + 1, TRUE)

createFromTemplate(r, url, templateName, overrides, constructedFor) ==
    IF templateName \notin DOMAIN Templates
    THEN Outcome(r, TRUE, 0, FALSE)
    ELSE create(r, url, Spread(Templates[templateName], overrides), constructedFor)

\* Map.delete(key)
MapDelete(map, key) == [k \in (DOMAIN map) \ {key} |-> map[k]]

\* APIGatewayFactory.remove
remove(r, url) ==
    IF ~parseUrl(url).ok THEN Outcome(r, TRUE, 0, FALSE)
    ELSE Outcome([r EXCEPT !.gateways = MapDelete(@, originOf(url))], FALSE, 0, FALSE)

(***************************************************************************)
(* The controller's gateway commands over activeGateways.                  *)
(***************************************************************************)
ExtensionHeaders == "Origin,X-Extension-Id"

gatewayConfig(config) ==
    Spread(config,
           [ headers |-> ExtensionHeaders,
             retries |-> OrDefault(config, "retries", 3),
             timeout |-> OrDefault(config, "timeout", 30000),
             caching |-> OrDefault(config, "caching", Caching(300000, 50)) ])

templateOf(url) ==
    IF includes(url, "graphql") THEN "graphql"
    ELSE IF includes(url, "ws://") \/ includes(url, "wss://") THEN "websocket"
    ELSE "rest"

RegTemplate == [u \in RegUrls |-> templateOf(u)]

templateFor(url) == IF url \in RegUrls THEN RegTemplate[url] ELSE templateOf(url)

\* gateway.addRequestInterceptor(...); gateway.addResponseInterceptor(...);
\* this.activeGateways.set(origin, gateway)
wireAndStore(o, origin) ==
    [o EXCEPT
        !.r.clients[o.gateway].requestInterceptors = @ + 1,
        !.r.clients[o.gateway].responseInterceptors = @ + 1,
        !.r.activeGateways = MapSet(@, origin, o.gateway)]

\* A throw of the factory is caught and answered with success: false; here
\* threw means the answer was a failure.
createAPIGatewayForURL(r, url, config) ==
    IF ~parseUrl(url).ok THEN Outcome(r, TRUE, 0, FALSE)
    ELSE IF originOf(url) \in DOMAIN r.activeGateways
    THEN Outcome(r, FALSE, r.activeGateways[originOf(url)], FALSE)
    ELSE LET made == createFromTemplate(r, originOf(url), templateFor(url),
                                        gatewayConfig(config), url)
         IN  IF made.threw THEN Outcome(r, TRUE, 0, FALSE)
             ELSE wireAndStore(made, originOf(url))

removeGateway(r, url) ==
    IF ~parseUrl(url).ok THEN Outcome(r, TRUE, 0, FALSE)
    ELSE IF originOf(url) \in DOMAIN r.activeGateways
    THEN Outcome([r EXCEPT !.activeGateways = MapDelete(@, originOf(url))],
                 FALSE, 0, FALSE)
    ELSE Outcome(r, TRUE, 0, FALSE)

\* new APIGatewayFactory() and the controller's empty activeGateways.
APIGatewayFactory == [gateways |-> <<>>, clients |-> <<>>, activeGateways |-> <<>>]

NoCall == [op |-> "none", url |-> "", arg |-> "", config |-> "none",
           threw |-> FALSE, gateway |-> 0, constructed |-> FALSE,
           pre |-> APIGatewayFactory]

RegIdle == [r |-> APIGatewayFactory, call |-> NoCall]

(***************************************************************************)
(* CacheManager.  The Map is the sequence of its entries in insertion      *)
(* order; born numbers the insertions (history, not read by the code) and  *)
(* now is Date.now().                                                      *)
(***************************************************************************)
MaxNow == 2
MaxSets == 3

CacheKeys == {"key1", "key2", "key3"}
CacheData == {"data1", "data2"}

\* caching: { ttl, maxSize } as configured; 0 stands for a falsy value.
CachePolicies ==
    {[ttl |-> 1, maxSize |-> 1], [ttl |-> 2, maxSize |-> 2],
     [ttl |-> 0, maxSize |-> 2], [ttl |-> 1, maxSize |-> 0]}

CacheManager(config) ==
    [ttl |-> OrDefault(config, "ttl", 300000),
     maxSize |-> OrDefault(config, "maxSize", 100),
     cache |-> <<>>,
     born |-> 0]

CachedKeys(cache) == {cache[i].key : i \in 1..Len(cache)}

\* Position of the key in the Map, 0 when it has no entry.
IndexOfKey(cache, key) ==
    IF key \in CachedKeys(cache)
    THEN CHOOSE i \in 1..Len(cache) : cache[i].key = key
    ELSE 0

\* this.cache.delete(key)
CacheDelete(cache, key) == SelectSeq(cache, LAMBDA e : e.key # key)

\* this.cache.set(key, { data, timestamp: Date.now() }): a key that has an
\* entry keeps its place in the Map, a new key goes last.
CachePut(c, cache, key, data, now) ==
    IF key \in CachedKeys(cache)
    THEN [c EXCEPT !.cache = [cache EXCEPT ![IndexOfKey(cache, key)] =
                                 [@ EXCEPT !.data = data, !.timestamp = now]]]
    ELSE [c EXCEPT !.cache = Append(cache, [key |-> key, data |-> data,
                                            timestamp |-> now, born |-> c.born + 1]),
                   !.born = @ + 1]

Absent == [found |-> FALSE, data |-> ""]
Found(data) == [found |-> TRUE, data |-> data]

\* A get that also moves the entry it reads to the end of the Map.
get_touching(c, key, now) ==
    IF key \notin CachedKeys(c.cache) THEN [c |-> c, result |-> Absent]
    ELSE IF now - c.cache[IndexOfKey(c.cache, key)].timestamp > c.ttl
    THEN [c |-> [c EXCEPT !.cache = CacheDelete(@, key)], result |-> Absent]
    ELSE [c |-> [c EXCEPT !.cache = Append(CacheDelete(@, key),
                                           c.cache[IndexOfKey(c.cache, key)])],
          result |-> Found(c.cache[IndexOfKey(c.cache, key)].data)]

\* A get that never looks at the age of the entry.
get_ignoringTtl(c, key, now) ==
    IF key \notin CachedKeys(c.cache) THEN [c |-> c, result |-> Absent]
    ELSE [c |-> c, result |-> Found(c.cache[IndexOfKey(c.cache, key)].data)]

\* CacheManager.get: the cache after the call and what it returned.
get(c, key, now) ==
    IF key \notin CachedKeys(c.cache) THEN [c |-> c, result |-> Absent]
    ELSE IF now - c.cache[IndexOfKey(c.cache, key)].timestamp > c.ttl
    THEN [c |-> [c EXCEPT !.cache = CacheDelete(@, key)], result |-> Absent]
    ELSE [c |-> c, result |-> Found(c.cache[IndexOfKey(c.cache, key)].data)]

\* CacheManager.set: keys().next().value of an empty Map is undefined and
\* deleting it removes nothing.
set(c, key, data, now) ==
    IF Len(c.cache) >= c.maxSize /\ c.cache # <<>>
    THEN CachePut(c, Tail(c.cache), key, data, now)
    ELSE CachePut(c, c.cache, key, data, now)

NoCacheCall ==
    [op |-> "none", key |-> "", data |-> "", result |-> Absent, pre |-> <<>>,
     after |-> "none", afterKey |-> "", afterData |-> ""]

CacheState(config) ==
    [c |-> CacheManager(config), configured |-> config, now |-> 0, call |-> NoCacheCall]

CacheIdle == CacheState([ttl |-> 0, maxSize |-> 0])
(***************************************************************************)
(* The request handler of an APIGateway (createHandler): one dispatch at a *)
(* time, advancing from await to await.  JavaScript values are written as  *)
(* their JSON text.  attempts, waits, errorsSeen, lastStatus and start are *)
(* history of the running dispatch, not read by the code.                  *)
(***************************************************************************)
MaxDispatches == 2
MaxRetries == 2

Methods == {"GET", "POST"}
RequestUrl == "https://api.example.com/users"

\* Bodies a 2xx response may carry: an object, the number 0, the empty string.
Bodies == {"{}", "0", "\"\""}
ErrorBody == "\"Service Unavailable\""
JsFalsy == {"0", "\"\"", "false", "null"}
Truthy(value) == value \notin JsFalsy

NetworkErrors == {"Network error or CORS issue", "Request timeout"}

\* executeRequest: fetch rejects (it throws), or resolves with a status.
Throws(error) == [kind |-> "throws", error |-> error, status |-> 0, data |-> ""]
Responds(status, data) ==
    [kind |-> "responds", error |-> "", status |-> status, data |-> data]
Outcomes ==
    {Throws(error) : error \in NetworkErrors}
        \cup {Responds(200, data) : data \in Bodies}
        \cup {Responds(503, ErrorBody)}

\* response.ok
Ok(status) == status >= 200 /\ status <= 299

\* caching as the dispatch samples configure it.
DispatchConfigs ==
    {[retries |-> retries, caching |-> caching] :
        retries \in 0..MaxRetries, caching \in {CachingOff, Caching(300000, 50)}}

NoResult == [kind |-> "none", value |-> ""]
ReturnedData(value) == [kind |-> "returned", value |-> value]
ThrewError(error) == [kind |-> "threw", value |-> error]

NotStarted == [requests |-> 0, errors |-> 0, hit |-> FALSE, stored |-> ""]

\* config.interceptors || { request: [], response: [] }: an interceptor is
\* written as what it does when awaited, "passes" or "throws".
NoInterceptors == [request |-> <<>>, response |-> <<>>]
InterceptorError == "interceptor failed"
NoResponse == Responds(0, "")

\* What the running dispatch has done so far, in order: a request
\* interceptor (i its position), rateLimiter.acquire, cache.get,
\* executeRequest (i the status, 0 when it threw), a response interceptor,
\* cache.set.
Did(what, i) == [what |-> what, i |-> i]

\* new APIGateway(baseUrl, config): config, metrics, cache.
Dispatcher(config) ==
    [config |-> APIGatewayConfig(config),
     configured |-> config,
     cache |-> CacheManager(APIGatewayConfig(config).caching),
     requests |-> 0,
     errors |-> 0,
     pc |-> "idle",
     method |-> "",
     attempt |-> 0,
     attempts |-> 0,
     waits |-> <<>>,
     errorsSeen |-> <<>>,
     lastStatus |-> 0,
     start |-> NotStarted,
     result |-> NoResult,
     dispatches |-> 0,
     interceptors |-> OrDefault(config, "interceptors", NoInterceptors),
     rateLimiter |-> "rateLimit" \in DOMAIN config,
     idx |-> 0,
     response |-> NoResponse,
     log |-> <<>>]

\* request.cacheKey
cacheKey(method) == method \o ":" \o RequestUrl

\* A delay that grows by one second per attempt.
backoff_linear(attempt) == (attempt + 1) * 1000

\* this.delay(Math.pow(2, attempt) * 1000)
backoff(attempt) == (2 ^ attempt) * 1000

\* The handler from its call to the end of the cache check.
handlerCalled(g, method, cached) ==
    IF g.config.caching.on /\ method = "GET" /\ cached.result.found
           /\ Truthy(cached.result.data)
    THEN [g EXCEPT !.cache = cached.c,
                   !.requests = @ + 1,
                   !.result = ReturnedData(cached.result.data),
                   !.pc = "done"]
    ELSE [g EXCEPT !.cache = IF g.config.caching.on /\ method = "GET"
                             THEN cached.c ELSE @,
                   !.pc = "attempt"]

\* The cache check: cache.get is called for a GET of a caching gateway.
cacheCheck(g) ==
    handlerCalled([g EXCEPT !.idx = 0,
                            !.log = IF g.config.caching.on /\ g.method = "GET"
                                    THEN Append(@, Did("cacheGet", 0)) ELSE @],
                  g.method, get(g.cache, cacheKey(g.method), 0))

\* if (this.rateLimiter) await this.rateLimiter.acquire()
rateLimiting(g) ==
    IF g.rateLimiter THEN [g EXCEPT !.idx = 0, !.pc = "acquire"] ELSE cacheCheck(g)

\* acquire() resolved.
acquired(g) == cacheCheck([g EXCEPT !.log = Append(@, Did("acquire", 0))])

\* Variant: the loop over the request interceptors ends after one of them.
requestInterceptor_firstOnly(g) ==
    IF g.interceptors.request[g.idx] = "throws"
    THEN [g EXCEPT !.log = Append(@, Did("request", g.idx)),
                   !.result = ThrewError(InterceptorError),
                   !.pc = "done"]
    ELSE rateLimiting([g EXCEPT !.log = Append(@, Did("request", g.idx))])

\* await interceptor(request) for the interceptor at position idx: its
\* throw leaves the handler, otherwise the loop goes on.
requestInterceptor(g) ==
    IF g.interceptors.request[g.idx] = "throws"
    THEN [g EXCEPT !.log = Append(@, Did("request", g.idx)),
                   !.result = ThrewError(InterceptorError),
                   !.pc = "done"]
    ELSE IF g.idx < Len(g.interceptors.request)
    THEN [g EXCEPT !.log = Append(@, Did("request", g.idx)), !.idx = @ + 1]
    ELSE rateLimiting([g EXCEPT !.log = Append(@, Did("request", g.idx))])

\* The handler from its call to its first await.
handlerStarted(g) ==
    IF g.interceptors.request = <<>> THEN rateLimiting(g)
    ELSE [g EXCEPT !.idx = 1, !.pc = "request"]

createHandler(g, method) ==
    handlerStarted([g EXCEPT !.method = method,
                            !.log = <<>>,
                            !.response = NoResponse,
                            !.attempt = 0,
                            !.attempts = 0,
                            !.waits = <<>>,
                            !.errorsSeen = <<>>,
                            !.lastStatus = 0,
                            !.result = NoResult,
                            !.dispatches = @ + 1,
                            !.start = [requests |-> g.requests,
                                       errors |-> g.errors,
                                       hit |-> g.config.caching.on
                                               /\ get(g.cache, cacheKey(method), 0).result.found,
                                       stored |-> get(g.cache, cacheKey(method), 0).result.data]])

\* Variant: every response of a caching gateway is stored.
responseAccepted_storesAll(g, response) ==
    [g EXCEPT !.cache = IF g.config.caching.on
                        THEN set(@, cacheKey(g.method), response.data, 0)
                        ELSE @,
              !.log = IF g.config.caching.on
                      THEN Append(@, Did("cacheSet", 0)) ELSE @,
              !.requests = @ + 1,
              !.result = ReturnedData(response.data),
              !.idx = 0,
              !.pc = "done"]

\* The try block after the response interceptors: cache.set for a
\* successful GET, updateMetrics, return response.data.
responseAccepted(g, response) ==
    [g EXCEPT !.cache = IF g.config.caching.on /\ g.method = "GET" /\ Ok(response.status)
                        THEN set(@, cacheKey(g.method), response.data, 0)
                        ELSE @,
              !.log = IF g.config.caching.on /\ g.method = "GET" /\ Ok(response.status)
                      THEN Append(@, Did("cacheSet", 0)) ELSE @,
              !.requests = @ + 1,
              !.result = ReturnedData(response.data),
              !.idx = 0,
              !.pc = "done"]

\* One pass of the retry loop: executeRequest resolved.
attemptResolved(g, response) ==
    IF g.interceptors.response = <<>>
    THEN responseAccepted([g EXCEPT !.attempts = @ + 1,
                                    !.lastStatus = response.status,
                                    !.log = Append(@, Did("fetch", response.status))],
                          response)
    ELSE [g EXCEPT !.attempts = @ + 1,
                   !.lastStatus = response.status,
                   !.log = Append(@, Did("fetch", response.status)),
                   !.response = response,
                   !.idx = 1,
                   !.pc = "response"]

\* The catch block of the retry loop.
caught(g, error) ==
    IF g.attempt < g.config.retries
    THEN [g EXCEPT !.errorsSeen = Append(@, error),
                   !.waits = Append(@, backoff(g.attempt)),
                   !.idx = 0,
                   !.pc = "delay"]
    ELSE [g EXCEPT !.errorsSeen = Append(@, error),
                   !.errors = @ + 1,
                   !.result = ThrewError(error),
                   !.idx = 0,
                   !.pc = "done"]

\* One pass of the retry loop: executeRequest threw.
attemptThrew(g, error) ==
    caught([g EXCEPT !.attempts = @ + 1, !.log = Append(@, Did("fetch", 0))], error)

\* await interceptor(response) for the interceptor at position idx, inside
\* the try block.
responseInterceptor(g) ==
    IF g.interceptors.response[g.idx] = "throws"
    THEN caught([g EXCEPT !.log = Append(@, Did("response", g.idx))], InterceptorError)
    ELSE IF g.idx < Len(g.interceptors.response)
    THEN [g EXCEPT !.log = Append(@, Did("response", g.idx)), !.idx = @ + 1]
    ELSE responseAccepted([g EXCEPT !.log = Append(@, Did("response", g.idx))],
                          g.response)

executeAttempt(g, outcome) ==
    IF outcome.kind = "throws" THEN attemptThrew(g, outcome.error)
    ELSE attemptResolved(g, outcome)

\* The delay ends and the loop goes to its next pass.
delayElapsed(g) == [g EXCEPT !.attempt = @ + 1, !.pc = "attempt"]

DispatchIdle == Dispatcher([retries |-> 0, caching |-> CachingOff])

\* Nothing has been asked of the gateway pipeline.
GatewaysIdle ==
    /\ reg = RegIdle
    /\ cm = CacheIdle
    /\ gw = DispatchIdle

(***************************************************************************)
(* buildRequest and applyAuthentication.  A headers object is a function   *)
(* from header names to values; an options object is a function from the  *)
(* keys the caller gave to their values.                                   *)
(***************************************************************************)
\* Characters of code 32..126 in code order, for charCodeAt.  Code 96, the
\* backquote, cannot be written in a string here; a tab holds its place.
Ascii ==
    " !\"#$%&'()*+,-./0123456789:;<=>?@ABCDEFGHIJKLMNOPQRSTUVWXYZ[\\]^_\tabcdefghijklmnopqrstuvwxyz{|}~"

Base64Chars == "ABCDEFGHIJKLMNOPQRSTUVWXYZabcdefghijklmnopqrstuvwxyz0123456789+/"

CharCode(c) == 31 + CHOOSE i \in 1..Len(Ascii) : CharAt(Ascii, i) = c

Base64Char(n) == CharAt(Base64Chars, n + 1)

\* The four characters that encode the bytes a, b, c.
Base64Group(a, b, c) ==
    Base64Char(a \div 4)
        \o Base64Char((a % 4) * 16 + (b \div 16))
        \o Base64Char((b % 16) * 4 + (c \div 64))
        \o Base64Char(c % 64)

\* btoa(s) for s of characters 32..126.
RECURSIVE btoa(_)
btoa(s) ==
    IF Len(s) = 0 THEN ""
    ELSE IF Len(s) = 1
    THEN SubSeq(Base64Group(CharCode(CharAt(s, 1)), 0, 0), 1, 2) \o "=="
    ELSE IF Len(s) = 2
    THEN SubSeq(Base64Group(CharCode(CharAt(s, 1)), CharCode(CharAt(s, 2)), 0), 1, 3)
             \o "="
    ELSE Base64Group(CharCode(CharAt(s, 1)), CharCode(CharAt(s, 2)),
                     CharCode(CharAt(s, 3)))
             \o btoa(SubSeq(s, 4, Len(s)))

NoAuthentication == [type |-> "none"]

\* config.authentication as the samples configure it; key "" is no key.
Authentications ==
    {NoAuthentication,
     [type |-> "bearer", token |-> "t0k3n"],
     [type |-> "apiKey", location |-> "header", key |-> "", value |-> "k3y"],
     [type |-> "apiKey", location |-> "header", key |-> "X-Auth", value |-> "k3y"],
     [type |-> "basic", username |-> "user", password |-> "pass"],
     [type |-> "oauth2", accessToken |-> "acc3ss"]}

\* config.headers of the client.
ClientHeaders ==
    {<<>>, [Accept |-> "application/json"], [Authorization |-> "Bearer default"]}

\* options of a call: none, without headers, and with headers that name
\* the authentication header or another one.
CallOptions ==
    {<<>>,
     [timeout |-> "1000"],
     [headers |-> <<>>],
     [headers |-> [Authorization |-> "Bearer caller"]],
     [headers |-> ("X-Trace" :> "1")],
     [headers |-> ("X-API-Key" :> "caller")],
     [headers |-> ("X-Auth" :> "caller")]}

\* options.headers, undefined spreading to nothing.
OptionHeaders(options) ==
    IF "headers" \in DOMAIN options THEN options.headers ELSE <<>>

\* applyAuthentication(headers)
applyAuthentication(auth, headers) ==
    IF auth.type = "bearer"
    THEN Spread(headers, [Authorization |-> "Bearer " \o auth.token])
    ELSE IF auth.type = "apiKey"
    THEN IF auth.location = "header"
         THEN Spread(headers, (IF auth.key = "" THEN "X-API-Key" ELSE auth.key)
                                  :> auth.value)
         ELSE headers
    ELSE IF auth.type = "basic"
    THEN Spread(headers,
                [Authorization |->
                    "Basic " \o btoa(auth.username \o ":" \o auth.password)])
    ELSE IF auth.type = "oauth2"
    THEN Spread(headers, [Authorization |-> "Bearer " \o auth.accessToken])
    ELSE headers

\* const headers = { ...this.config.headers, ...options.headers,
\*                   'Content-Type': 'application/json' }, then authentication
buildHeaders(config, options) ==
    IF config.authentication.type # "none"
    THEN applyAuthentication(config.authentication,
             Spread(Spread(config.headers, OptionHeaders(options)),
                    ("Content-Type" :> "application/json")))
    ELSE Spread(Spread(config.headers, OptionHeaders(options)),
                ("Content-Type" :> "application/json"))

\* buildRequest: { url, method, headers, body, cacheKey, ...options }
buildRequest(config, method, options) ==
    Spread([url |-> RequestUrl, method |-> method,
            headers |-> buildHeaders(config, options),
            cacheKey |-> cacheKey(method)],
           options)

RequestBuilder(config) ==
    [config |-> config, called |-> FALSE, method |-> "", options |-> <<>>,
     request |-> <<>>]

RequestIdle == RequestBuilder([headers |-> <<>>, authentication |-> NoAuthentication])
(***************************************************************************)
(* RateLimiter.  A call of acquire() is its number in arrival order; the   *)
(* queue holds the calls not yet resolved.  JavaScript runs acquire() and  *)
(* the part of process() up to its await without interruption, and runs    *)
(* the rest of process() when the timer fires.  arrived and admitted are   *)
(* history: when each call arrived and when it was resolved.               *)
(***************************************************************************)
MaxAcquires == 4
MaxClock == 200
TickMs == 50

\* rateLimit: { maxRequests, windowMs } as configured; 0 is a falsy value.
RateLimits ==
    {[maxRequests |-> 2, windowMs |-> 100], [maxRequests |-> 1, windowMs |-> 100],
     [maxRequests |-> 0, windowMs |-> 0], [maxRequests |-> -1, windowMs |-> 100]}

NoTimer == -1

RateLimiter(config) ==
    [maxRequests |-> OrDefault(config, "maxRequests", 10),
     windowMs |-> OrDefault(config, "windowMs", 1000),
     queue |-> <<>>,
     processing |-> FALSE,
     timer |-> NoTimer,
     configured |-> config,
     now |-> 0,
     arrived |-> <<>>,
     admitted |-> <<>>,
     loops |-> 0]

\* Number of elements splice(0, deleteCount) removes from the queue.
SpliceCount(queue, deleteCount) ==
    IF deleteCount < 0 THEN 0
    ELSE IF deleteCount > Len(queue) THEN Len(queue)
    ELSE deleteCount

\* batch.forEach(resolve => resolve())
Resolved(r, batch) ==
    [i \in 1..Len(batch) |-> [call |-> batch[i], at |-> r.now]]

\* One pass of the while loop of process(): to the await, or to the end.
drainWith(r, count) ==
    IF count < Len(r.queue)
    THEN [r EXCEPT !.admitted = @ \o Resolved(r, SubSeq(r.queue, 1, count)),
                   !.queue = SubSeq(@, count + 1, Len(@)),
                   !.timer = r.now + r.windowMs]
    ELSE [r EXCEPT !.admitted = @ \o Resolved(r, r.queue),
                   !.queue = <<>>,
                   !.processing = FALSE,
                   !.loops = @ - 1]

drain(r) ==
    IF r.queue = <<>> THEN [r EXCEPT !.processing = FALSE, !.loops = @ - 1]
    ELSE drainWith(r, SpliceCount(r.queue, r.maxRequests))

\* A process() that never clears its processing flag.
process_neverIdle(r) ==
    IF r.processing THEN r
    ELSE [drain([r EXCEPT !.processing = TRUE, !.loops = @ + 1])
             EXCEPT !.processing = TRUE]

\* A process() that does not look at its processing flag.
process_reentrant(r) == drain([r EXCEPT !.processing = TRUE, !.loops = @ + 1])

\* RateLimiter.process up to its first await; loops counts the calls of
\* process() that are inside the while loop or waiting in it (history).
process(r) ==
    IF r.processing THEN r
    ELSE drain([r EXCEPT !.processing = TRUE, !.loops = @ + 1])

\* RateLimiter.acquire: the executor of the promise.
acquire(r) ==
    process([r EXCEPT !.queue = Append(@, Len(r.arrived) + 1),
                      !.arrived = Append(@, r.now)])

\* The timer of the await fires and process() goes on with its loop.
timerFired(r) == drain([r EXCEPT !.timer = NoTimer])

LimiterIdle == RateLimiter([maxRequests |-> 0, windowMs |-> 0])

(***************************************************************************)
(* LocalProxyConnector.checkConnection.  A call is in flight from its      *)
(* fetch to the moment the status call settles; timers counts the retries  *)
(* set with setTimeout and not yet run.  started, settled, outcome and     *)
(* result are history: calls made, calls finished, and the status call and *)
(* the returned value of the call that finished last.                      *)
(***************************************************************************)
MaxChecks == 4

GatewayLists == {<<>>, <<"gateway1">>}

\* The status call: a 2xx response whose body is JSON with or without a
\* gateways field, a 2xx response whose body is not JSON, a response that
\* is not ok, and a fetch that rejects.
StatusOutcomes ==
    {[kind |-> "ok", hasGateways |-> TRUE, gateways |-> g] : g \in GatewayLists}
        \cup {[kind |-> "ok", hasGateways |-> FALSE, gateways |-> <<>>],
              [kind |-> "notJson", hasGateways |-> FALSE, gateways |-> <<>>],
              [kind |-> "notOk", hasGateways |-> FALSE, gateways |-> <<>>],
              [kind |-> "rejects", hasGateways |-> FALSE, gateways |-> <<>>]}

\* The value of a function that ends without a return statement.
undefined == <<>>

LocalProxyConnector ==
    [isConnected |-> FALSE,
     activeGateways |-> <<>>,
     connectionRetries |-> 0,
     maxRetries |-> 5,
     inFlight |-> 0,
     timers |-> 0,
     started |-> 0,
     settled |-> 0,
     outcome |-> "none",
     result |-> undefined]

\* checkConnection up to its await of fetch.
checkConnectionCalled(c) ==
    [c EXCEPT !.inFlight = @ + 1, !.started = @ + 1]

\* The try block after a response that is ok and whose json() resolved.
checkConnectionOk(c, data) ==
    [c EXCEPT !.isConnected = TRUE,
              !.activeGateways = IF data.hasGateways THEN data.gateways ELSE <<>>,
              !.connectionRetries = 0,
              !.result = [connected |-> TRUE,
                          gateways |-> IF data.hasGateways THEN data.gateways ELSE <<>>,
                          message |-> "Connected to local proxy service"]]

\* The catch block: fetch or json() rejected.
checkConnectionCaught(c) ==
    [c EXCEPT !.isConnected = FALSE,
              !.connectionRetries = @ + 1,
              !.timers = IF c.connectionRetries + 1 < c.maxRetries THEN @ + 1 ELSE @,
              !.result = [connected |-> FALSE,
                          error |-> "Local proxy service not running",
                          message |-> "Please start the proxy-rotator service"]]

\* checkConnection from the answer of fetch to its end; a response that is
\* not ok passes the if and leaves the try block with nothing returned.
checkConnectionSettled(c, outcome) ==
    LET done == [c EXCEPT !.inFlight = @ - 1, !.settled = @ + 1,
                          !.outcome = outcome.kind]
    IN  IF outcome.kind = "ok" THEN checkConnectionOk(done, outcome)
        ELSE IF outcome.kind = "notOk" THEN [done EXCEPT !.result = undefined]
        ELSE checkConnectionCaught(done)

\* setTimeout(() => this.checkConnection(), 2000) runs.
retryTimerFired(c) == checkConnectionCalled([c EXCEPT !.timers = @ - 1])

ConnectorIdle == LocalProxyConnector

(***************************************************************************)
(* The chrome.runtime.onMessage listener.  A request is the message object *)
(* (a function from the fields it has to their values), a response is the *)
(* object given to sendResponse.  The listener works on the controller and *)
(* the host (w), the factory and activeGateways (r) and the contents of    *)
(* chrome.storage.local (storage, a function from the keys that were set   *)
(* to their values).  What the world answers to a command that waits for   *)
(* it (the random pick, the status call, the active tab, the gateway       *)
(* handler, the management service) is given with the command, and the     *)
(* command is followed to its response or to the throw that ends it.       *)
(***************************************************************************)
MaxMessages == 2
MaxRestarts == 1

\* request.proxies of a message that has no such field, written as a list
\* that holds the word.
Missing == <<"undefined">>

MsgUrls == {"https://api.example.com/v1?x=1", "not-a-valid-url"}
MsgDomains == {"shop", "blog"}
TabUrls == {"", "https://shop.com", "not-a-valid-url"}
\* new URL(tabs[0].url) for the samples, evaluated once.
TabParsed == [url \in TabUrls |-> ParseURL(url)]
HandlerOutcomes == {"resolves", "throws"}
ServiceOutcomes == {"ok", "notOk", "rejects"}

\* Messages whose type is none of the cases of the switch: a type nobody
\* handles, a known type in another case, an empty type, no type at all.
UnknownRequests == {[type |-> "invalidType"], [type |-> "Enable"], [type |-> ""], <<>>}

KnownRequests ==
    {[type |-> t] : t \in {"enable", "disable", "rotate", "getStatus", "getAllGateways",
                           "enableAutoRotate", "disableAutoRotate",
                           "getAutoRotateStatus", "getCurrentTabDomain",
                           "checkLocalProxy", "createAWSGateway", "deleteAWSGateway",
                           "listAWSGateways", "rotateAWSGateway", "getLocalProxyStats",
                           "updateProxies"}}
        \cup {[type |-> "updateProxies", proxies |-> l] : l \in {<<>>, <<"A">>}}
        \cup {[type |-> "updateRotationMode", mode |-> "random"],
              [type |-> "updateRotationFrequency", frequency |-> 2]}
        \cup {[type |-> t, gateway |-> g] :
                 t \in {"addAPIGateway", "removeAPIGateway"}, g \in GatewayUrls}
        \cup {[type |-> t, url |-> u] :
                 t \in {"createAPIGateway", "generateEndpoints", "removeGateway"},
                 u \in MsgUrls}
        \cup {[type |-> "generateEndpoints", url |-> u, endpoints |-> {"/users"}] :
                 u \in MsgUrls}
        \cup {[type |-> "executeGatewayRequest", url |-> u, path |-> "/users"] :
                 u \in MsgUrls}
        \cup {[type |-> "autoGenerateREST", url |-> u, resource |-> "users/"] :
                 u \in MsgUrls}
        \cup {[type |-> "autoGenerateREST", url |-> u] : u \in MsgUrls}
        \cup {[type |-> t, domain |-> d] :
                 t \in {"addToWhitelist", "removeFromWhitelist"}, d \in MsgDomains}
        \cup {[type |-> "toggleLocalProxy", enabled |-> b] : b \in BOOLEAN}

Requests == KnownRequests \cup UnknownRequests

\* request.type, undefined when the message has no type.
TypeOf(request) == IF "type" \in DOMAIN request THEN request.type ELSE "undefined"

\* What the world answers to the commands that wait for it.
Answers(rnd, status, tabUrl, handler, service) ==
    [rnd |-> rnd, status |-> status, tabUrl |-> tabUrl, handler |-> handler,
     service |-> service]

NoAnswer == Answers(0, "ok", "", "resolves", "ok")

Environments(request, p) ==
    LET type == TypeOf(request)
    IN  IF type = "rotate"
        THEN {[NoAnswer EXCEPT !.rnd = rnd] : rnd \in RandomPicks(p)}
        ELSE IF type = "checkLocalProxy" \/ (type = "toggleLocalProxy" /\ request.enabled)
        THEN {[NoAnswer EXCEPT !.status = status] : status \in CheckOutcomes}
        ELSE IF type = "getCurrentTabDomain"
        THEN {[NoAnswer EXCEPT !.tabUrl = tabUrl] : tabUrl \in TabUrls}
        ELSE IF type = "executeGatewayRequest"
        THEN {[NoAnswer EXCEPT !.handler = handler] : handler \in HandlerOutcomes}
        ELSE IF type \in {"createAWSGateway", "deleteAWSGateway", "listAWSGateways",
                          "rotateAWSGateway", "getLocalProxyStats"}
        THEN {[NoAnswer EXCEPT !.service = service] : service \in ServiceOutcomes}
        ELSE {NoAnswer}

\* The listener returned after sendResponse(response).
Answer(s, response) ==
    [w |-> s.w, r |-> s.r, storage |-> s.storage,
     responded |-> TRUE, response |-> response, threw |-> FALSE]

\* The command ended with an exception nobody caught; sendResponse was not
\* called.
Escapes(s) ==
    [w |-> s.w, r |-> s.r, storage |-> s.storage,
     responded |-> FALSE, response |-> undefined, threw |-> TRUE]

Success == [success |-> TRUE]
Failure(error) == [success |-> FALSE, error |-> error]
InvalidURL == "Failed to construct 'URL': Invalid URL"

\* chrome.storage.local.set(entry)
Stored(s, entry) == [s EXCEPT !.storage = Spread(@, entry)]

\* ProxyManager.getCurrentProxy: null for an empty list, else the target
\* at the index (undefined when there is none) with the index.
getCurrentProxy(p) ==
    IF Len(p.proxyEndpoints) = 0 THEN [name |-> "null", index |-> p.currentProxyIndex]
    ELSE [name |-> IF IndexInRange(p) THEN p.proxyEndpoints[p.currentProxyIndex + 1]
                   ELSE "undefined",
          index |-> p.currentProxyIndex]

getAutoRotateStatus(p) ==
    [enabled |-> p.autoRotateMode,
     whitelist |-> p.autoRotateWhitelist,
     blacklist |-> p.autoRotateBlacklist,
     tabProxyMap |-> p.tabProxyMap]

\* path.replace(/\/$/, '') || '/' after the leading slash was added.
normalizePath(path) ==
    LET rooted == IF startsWith(path, "/") THEN path ELSE "/" \o path
        cut == IF CharAt(rooted, Len(rooted)) = "/"
               THEN SubSeq(rooted, 1, Len(rooted) - 1) ELSE rooted
    IN  IF cut = "" THEN "/" ELSE cut

\* The keys of activeGateways as they are written to storage.
gatewayUrls(r) == DOMAIN r.activeGateways

\* case 'updateProxies': a message without proxies assigns undefined to
\* proxyEndpoints, gives it to storage (which drops an undefined value) and
\* throws on endpoints.length.
onUpdateProxies(s, request) ==
    IF "proxies" \notin DOMAIN request
    THEN Escapes([s EXCEPT !.w.pm.proxyEndpoints = Missing])
    ELSE Answer(Stored([s EXCEPT !.w = updateProxyEndpoints(@, request.proxies)],
                       [proxyEndpoints |-> request.proxies]),
                Success)

\* case 'rotate'
onRotate(s, after) ==
    Answer([s EXCEPT !.w = after],
           [success |-> TRUE, currentProxy |-> getCurrentProxy(after.pm)])

\* addToWhitelist / removeFromWhitelist write storage when they change the
\* whitelist.
onWhitelist(s, after) ==
    Answer(IF after.pm.autoRotateWhitelist # s.w.pm.autoRotateWhitelist
           THEN Stored([s EXCEPT !.w = after],
                       [autoRotateWhitelist |-> after.pm.autoRotateWhitelist])
           ELSE s,
           Success)

\* addAPIGateway / removeAPIGateway write storage when they change the list.
onAPIGateway(s, after) ==
    Answer(IF after.pm.apiGateways # s.w.pm.apiGateways
           THEN Stored([s EXCEPT !.w = after], [apiGateways |-> after.pm.apiGateways])
           ELSE [s EXCEPT !.w = after],
           Success)

\* The answer of createAPIGatewayForURL, made being what it did; storage
\* is written when a gateway was stored, not when one was found.
createdGateway(s, origin, made) ==
    IF made.threw THEN Answer(s, Failure(InvalidURL))
    ELSE IF origin \in DOMAIN s.r.activeGateways
    THEN Answer(s, [success |-> TRUE, gateway |-> made.gateway,
                    message |-> "Gateway already exists for this origin"])
    ELSE Answer(Stored([s EXCEPT !.r = made.r],
                       [apiGatewayUrls |-> gatewayUrls(made.r)]),
                [success |-> TRUE, gateway |-> made.gateway,
                 message |-> "Gateway created for " \o origin])

\* case 'generateEndpoints', with request.endpoints || []
onGenerateEndpoints(s, ok, origin, endpoints) ==
    IF ~ok THEN Answer(s, Failure(InvalidURL))
    ELSE IF origin \notin DOMAIN s.r.activeGateways
    THEN Answer(s, Failure("Gateway not found for this URL"))
    ELSE Answer([s EXCEPT !.r.clients[s.r.activeGateways[origin]].endpoints =
                              @ \cup endpoints],
                [success |-> TRUE, endpoints |-> endpoints])

\* gateway.createRESTEndpoints(resource) on the instance; normalizePath
\* throws on a resource that is undefined.
createRESTEndpoints(s, gateway, request) ==
    IF "resource" \notin DOMAIN request
    THEN Answer(s, Failure("Cannot read properties of undefined (reading 'startsWith')"))
    ELSE Answer([s EXCEPT !.r.clients[gateway].endpoints =
                              @ \cup {normalizePath(request.resource),
                                      normalizePath(request.resource) \o "/:id"}],
                [success |-> TRUE, resource |-> request.resource])

\* autoGenerateRESTEndpoints after the gateway it was missing was asked for.
createdThenREST(created, request) ==
    IF ~created.response.success THEN created
    ELSE createRESTEndpoints(created, created.response.gateway, request)

\* case 'autoGenerateREST': a gateway that is missing is created first.
onAutoGenerateREST(s, request, ok, origin, made) ==
    IF ~ok THEN Answer(s, Failure(InvalidURL))
    ELSE IF origin \in DOMAIN s.r.activeGateways
    THEN createRESTEndpoints(s, s.r.activeGateways[origin], request)
    ELSE createdThenREST(createdGateway(s, origin, made), request)

\* case 'removeGateway', removed being what removeGateway did.
onRemoveGateway(s, ok, origin, removed) ==
    IF ~ok THEN Answer(s, Failure(InvalidURL))
    ELSE IF origin \in DOMAIN s.r.activeGateways
    THEN Answer(Stored([s EXCEPT !.r = removed.r],
                       [apiGatewayUrls |-> gatewayUrls(removed.r)]),
                [success |-> TRUE, message |-> "Gateway removed for " \o origin])
    ELSE Answer(s, Failure("Gateway not found"))

\* The handler of an endpoint was awaited inside try/catch.
handlerAwaited(s, gateway, handler) ==
    IF handler = "resolves"
    THEN Answer([s EXCEPT !.r.clients[gateway].requests = @ + 1],
                [success |-> TRUE, data |-> "{}"])
    ELSE Answer([s EXCEPT !.r.clients[gateway].errors = @ + 1],
                Failure("Network error or CORS issue"))

\* case 'executeGatewayRequest': the endpoint is created when it is missing.
onExecuteGatewayRequest(s, request, ok, origin, handler) ==
    IF ~ok THEN Answer(s, Failure(InvalidURL))
    ELSE IF origin \notin DOMAIN s.r.activeGateways
    THEN Answer(s, Failure("Gateway not found"))
    ELSE handlerAwaited([s EXCEPT !.r.clients[s.r.activeGateways[origin]].endpoints =
                                      @ \cup {request.path}],
                        s.r.activeGateways[origin], handler)

\* The five commands that carry a URL, with new URL(request.url) done:
\* ok when it parsed, origin its origin.
onGatewayCommand(s, request, answer, ok, origin) ==
    CASE request.type = "createAPIGateway" ->
            createdGateway(s, origin, createAPIGatewayForURL(s.r, request.url, NoConfig))
      [] request.type = "generateEndpoints" ->
            onGenerateEndpoints(s, ok, origin,
                                IF "endpoints" \in DOMAIN request
                                THEN request.endpoints ELSE {})
      [] request.type = "autoGenerateREST" ->
            onAutoGenerateREST(s, request, ok, origin,
                               createAPIGatewayForURL(s.r, request.url, NoConfig))
      [] request.type = "removeGateway" ->
            onRemoveGateway(s, ok, origin, removeGateway(s.r, request.url))
      [] request.type = "executeGatewayRequest" ->
            onExecuteGatewayRequest(s, request, ok, origin, answer.handler)

\* case 'getCurrentTabDomain': the callback of chrome.tabs.query.
onGetCurrentTabDomain(s, tabUrl) ==
    IF tabUrl = "" THEN Answer(s, Failure("No active tab"))
    ELSE IF ~TabParsed[tabUrl].ok THEN Answer(s, Failure("Invalid URL"))
    ELSE Answer(s, [success |-> TRUE, domain |-> TabParsed[tabUrl].hostname])

\* case 'checkLocalProxy': connectToLocalProxy reads result.connected of
\* the undefined that checkConnection returns for a response that is not ok.
onCheckLocalProxy(checked, status) ==
    IF status = "notOk" THEN Escapes(checked)
    ELSE IF status = "ok"
    THEN Answer(checked, [connected |-> TRUE,
                          message |-> "Connected to local proxy service"])
    ELSE Answer(checked, [connected |-> FALSE,
                          error |-> "Local proxy service not running",
                          message |-> "Please start the proxy-rotator service"])

\* The commands that hand the result of a LocalProxyConnector call to
\* sendResponse; rotateAWSGateway counts a rotation that succeeded.
onLocalProxyCommand(s, type, service) ==
    IF service = "ok"
    THEN Answer(IF type = "rotateAWSGateway"
                THEN [s EXCEPT !.w.pm.stats.rotations = @ + 1] ELSE s,
                Success)
    ELSE IF service = "rejects" \/ type \in {"listAWSGateways", "rotateAWSGateway",
                                             "getLocalProxyStats"}
    THEN Answer(s, Failure("Service not available"))
    ELSE Answer(s, Failure("Internal Server Error"))

\* case 'toggleLocalProxy': connectToLocalProxy() is called and not awaited.
onToggleLocalProxy(toggled, enabled, status) ==
    Answer(IF enabled THEN [toggled EXCEPT !.w = checkConnection(@, status)]
           ELSE toggled,
           [success |-> TRUE, enabled |-> enabled])

\* A listener that answers a command it does not know with success.
onUnknown_lenient(s, request, answer) == Answer(s, Success)

\* A listener that leaves a command it does not know without an answer.
onUnknown_silent(s, request, answer) ==
    [w |-> s.w, r |-> s.r, storage |-> s.storage,
     responded |-> FALSE, response |-> undefined, threw |-> FALSE]

\* default: sendResponse({ error: 'Unknown request type' })
onUnknown(s, request, answer) == Answer(s, [error |-> "Unknown request type"])

\* The listener: switch (request.type).
onMessage(s, request, answer) ==
    LET type == TypeOf(request)
    IN  CASE type = "enable" ->
                Answer(Stored([s EXCEPT !.w = enable(@)], [isEnabled |-> TRUE]), Success)
          [] type = "disable" ->
                Answer(Stored([s EXCEPT !.w = disable(@)], [isEnabled |-> FALSE]), Success)
          [] type = "rotate" -> onRotate(s, rotateProxy(s.w, answer.rnd))
          [] type = "getStatus" ->
                Answer(s, [isEnabled |-> s.w.pm.isEnabled,
                           currentProxy |-> getCurrentProxy(s.w.pm),
                           proxyEndpoints |-> s.w.pm.proxyEndpoints,
                           apiGateways |-> s.w.pm.apiGateways,
                           rotationMode |-> s.w.pm.rotationMode,
                           stats |-> s.w.pm.stats])
          [] type = "updateProxies" -> onUpdateProxies(s, request)
          [] type = "updateRotationMode" ->
                Answer(Stored([s EXCEPT !.w.pm.rotationMode = request.mode],
                              [rotationMode |-> request.mode]),
                       Success)
          [] type = "addAPIGateway" -> onAPIGateway(s, addAPIGateway(s.w, request.gateway))
          [] type = "removeAPIGateway" ->
                onAPIGateway(s, removeAPIGateway(s.w, request.gateway))
          [] type = "updateRotationFrequency" ->
                Answer([s EXCEPT !.w.pm.rotateEveryNRequests = request.frequency],
                       Success)
          [] type \in {"createAPIGateway", "generateEndpoints", "autoGenerateREST",
                       "removeGateway", "executeGatewayRequest"} ->
                onGatewayCommand(s, request, answer, parseUrl(request.url).ok,
                                 originOf(request.url))
          [] type = "getAllGateways" ->
                Answer(s, [success |-> TRUE, gateways |-> gatewayUrls(s.r)])
          [] type = "enableAutoRotate" ->
                Answer(Stored([s EXCEPT !.w = enableAutoRotate(@)],
                              [autoRotateMode |-> TRUE]),
                       Success)
          [] type = "disableAutoRotate" ->
                Answer(Stored([s EXCEPT !.w = disableAutoRotate(@)],
                              [autoRotateMode |-> FALSE]),
                       Success)
          [] type = "getAutoRotateStatus" ->
                Answer(s, Spread(Success, getAutoRotateStatus(s.w.pm)))
          [] type = "addToWhitelist" ->
                onWhitelist(s, addToWhitelist(s.w, request.domain))
          [] type = "removeFromWhitelist" ->
                onWhitelist(s, removeFromWhitelist(s.w, request.domain))
          [] type = "getCurrentTabDomain" -> onGetCurrentTabDomain(s, answer.tabUrl)
          [] type = "checkLocalProxy" ->
                onCheckLocalProxy([s EXCEPT !.w = checkConnection(@, answer.status)],
                                  answer.status)
          [] type \in {"createAWSGateway", "deleteAWSGateway", "listAWSGateways",
                       "rotateAWSGateway", "getLocalProxyStats"} ->
                onLocalProxyCommand(s, type, answer.service)
          [] type = "toggleLocalProxy" ->
                onToggleLocalProxy(Stored([s EXCEPT !.w.pm.useLocalProxy = request.enabled],
                                          [useLocalProxy |-> request.enabled]),
                                   request.enabled, answer.status)
          [] OTHER -> onUnknown(s, request, answer)

\* The configuration init() finds in storage.
StoredConfig(storage) ==
    [ hasProxyEndpoints |-> "proxyEndpoints" \in DOMAIN storage,
      proxyEndpoints |-> IF "proxyEndpoints" \in DOMAIN storage
                         THEN storage.proxyEndpoints ELSE <<>>,
      apiGateways |-> IF "apiGateways" \in DOMAIN storage
                      THEN storage.apiGateways ELSE <<>>,
      isEnabled |-> "isEnabled" \in DOMAIN storage /\ storage.isEnabled,
      rotationMode |-> IF "rotationMode" \in DOMAIN storage
                       THEN storage.rotationMode ELSE "",
      autoRotateMode |-> "autoRotateMode" \in DOMAIN storage /\ storage.autoRotateMode,
      autoRotateWhitelist |-> IF "autoRotateWhitelist" \in DOMAIN storage
                              THEN storage.autoRotateWhitelist ELSE <<>>,
      useLocalProxy |-> ~("useLocalProxy" \in DOMAIN storage /\ ~storage.useLocalProxy) ]

\* Contents of chrome.storage.local when the worker first starts: nothing,
\* and a configuration kept from an earlier run.
Stores ==
    {<<>>,
     [proxyEndpoints |-> <<"A", "B">>, isEnabled |-> TRUE, rotationMode |-> "random",
      autoRotateMode |-> TRUE, autoRotateWhitelist |-> <<"shop">>,
      useLocalProxy |-> FALSE]}

\* The configuration the claims speak of, as the controller holds it.
Configuration(p, r) ==
    [proxyEndpoints |-> p.proxyEndpoints,
     isEnabled |-> p.isEnabled,
     rotationMode |-> p.rotationMode,
     rotateEveryNRequests |-> p.rotateEveryNRequests,
     gatewayUrls |-> gatewayUrls(r),
     autoRotateWhitelist |-> p.autoRotateWhitelist,
     autoRotateMode |-> p.autoRotateMode]

\* The listener's record: storage, the last message, its answer, and the
\* controller and directory before it (history).
Listener(storage) ==
    [storage |-> storage,
     op |-> "init",
     request |-> <<>>,
     responded |-> FALSE,
     response |-> undefined,
     threw |-> FALSE,
     pre |-> [pm |-> constructor, r |-> APIGatewayFactory],
     messages |-> 0,
     restarts |-> 0]

ListenerIdle == Listener(<<>>)

PeripheralsIdle ==
    /\ req = RequestIdle
    /\ rl = LimiterIdle
    /\ conn = ConnectorIdle
    /\ msg = ListenerIdle
    /\ boot = BootIdle

(***************************************************************************)
(* Steps.  Each applies one handler of the service worker to the state.    *)
(***************************************************************************)
SarIdle == [url |-> "", whitelist |-> <<>>, blacklist |-> <<>>,
            called |-> FALSE, result |-> Returned(FALSE)]

NoStep == [op |-> "init", tabId |-> 0, url |-> "", pre |-> constructor, toggled |-> FALSE]

Step(w) ==
    /\ pm' = w.pm
    /\ chrome' = w.chrome
    /\ UNCHANGED <<observed, last, sar>>
    /\ UNCHANGED gatewayVars
    /\ UNCHANGED peripheralVars

\* The state after init(): the worker has started, no command has arrived.
Init ==
    /\ \E config \in Configs, outcome \in CheckOutcomes :
           /\ pm = Started(config, outcome).pm
           /\ chrome = Started(config, outcome).chrome
    /\ observed = 0
    /\ last = NoStep
    /\ sar = SarIdle
    /\ GatewaysIdle
    /\ PeripheralsIdle

CanRotate == pm.stats.rotations < MaxRotations

Enable == Step(enable(World))

Disable == Step(disable(World))

Rotate ==
    /\ CanRotate
    /\ \E rnd \in RandomPicks(pm) : Step(rotateProxy(World, rnd))

\* chrome.webRequest.onBeforeRequest for a main_frame or sub_frame request.
RequestObserved ==
    /\ CanRotate
    /\ pm.stats.totalRequests < MaxRequests
    /\ \E rnd \in RandomPicks(pm) : Step(handleRequest(World, rnd))

UpdateProxies ==
    \E endpoints \in TargetLists : Step(updateProxyEndpoints(World, endpoints))

UpdateRotationMode ==
    \E mode \in RotationModes : Step([World EXCEPT !.pm.rotationMode = mode])

UpdateRotationFrequency ==
    \E frequency \in Thresholds :
        Step([World EXCEPT !.pm.rotateEveryNRequests = frequency])

AddAPIGateway ==
    \E g \in GatewayUrls : Step(addAPIGateway(World, g))

RemoveAPIGateway ==
    \E g \in GatewayUrls : Step(removeAPIGateway(World, g))

\* chrome.tabs.onUpdated fires: the event source calls its listener.
Navigation ==
    /\ CanRotate
    /\ chrome.onUpdated > 0
    /\ \E tabId \in Tabs, url \in NavUrls, rnd \in RandomPicks(pm) :
           Step(tabUpdateListener(World, tabId, url, rnd))

\* Rotation and routing: every operation that moves currentProxyIndex or
\* reaches chrome.proxy.settings.
Next ==
    \/ Enable
    \/ Disable
    \/ Rotate
    \/ RequestObserved
    \/ Navigation
    \/ UpdateProxies
    \/ UpdateRotationMode
    \/ UpdateRotationFrequency
    \/ AddAPIGateway
    \/ RemoveAPIGateway

Spec == Init /\ [][Next]_vars

(***************************************************************************)
(* Auto-rotation: subscription to the tab events and the navigation        *)
(* handler.  Each step records itself and the instance before it in last.  *)
(***************************************************************************)
StepNav(w, op, tabId, url) ==
    /\ pm' = w.pm
    /\ chrome' = w.chrome
    /\ last' = [op |-> op, tabId |-> tabId, url |-> url, pre |-> pm,
                toggled |-> last.toggled \/ op \in {"enableAutoRotate", "disableAutoRotate"}]
    /\ UNCHANGED <<observed, sar>>
    /\ UNCHANGED gatewayVars
    /\ UNCHANGED peripheralVars

EnableAutoRotate == StepNav(enableAutoRotate(World), "enableAutoRotate", 0, "")

DisableAutoRotate == StepNav(disableAutoRotate(World), "disableAutoRotate", 0, "")

AddToWhitelist ==
    \E domain \in WhitelistDomains :
        StepNav(addToWhitelist(World, domain), "addToWhitelist", 0, "")

RemoveFromWhitelist ==
    \E domain \in WhitelistDomains :
        StepNav(removeFromWhitelist(World, domain), "removeFromWhitelist", 0, "")

TabUpdated ==
    /\ CanRotate
    /\ chrome.onUpdated > 0
    /\ \E tabId \in Tabs, url \in NavUrls, rnd \in RandomPicks(pm) :
           StepNav(tabUpdateListener(World, tabId, url, rnd), "tabUpdated", tabId, url)

\* chrome.tabs.onActivated fires.
TabActivated ==
    /\ chrome.onActivated > 0
    /\ \E tabId \in Tabs :
           StepNav(tabActivatedListener(World, tabId), "tabActivated", tabId, "")

\* chrome.tabs.get answers a lookup in flight.
TabsGetCallback ==
    /\ CanRotate
    /\ \E tabId \in chrome.tabsGet, url \in NavUrls, rnd \in RandomPicks(pm) :
           StepNav(tabsGetCallback(World, tabId, url, rnd), "tabsGet", tabId, url)

NextNav ==
    \/ EnableAutoRotate
    \/ DisableAutoRotate
    \/ AddToWhitelist
    \/ RemoveFromWhitelist
    \/ TabUpdated
    \/ TabActivated
    \/ TabsGetCallback

SpecNav == Init /\ [][NextNav]_vars

(***************************************************************************)
(* Request counting on its own: a started worker configured by the         *)
(* commands enable / updateProxies / updateRotationMode /                  *)
(* updateRotationFrequency, then only observed requests.                   *)
(***************************************************************************)
Configured(w, enabled, endpoints, mode, frequency) ==
    LET a == IF enabled THEN enable(w) ELSE disable(w)
        b == updateProxyEndpoints(a, endpoints)
    IN  [b EXCEPT !.pm.rotationMode = mode, !.pm.rotateEveryNRequests = frequency]

InitRequests ==
    /\ \E config \in Configs, outcome \in CheckOutcomes, enabled \in BOOLEAN,
          endpoints \in TargetLists, mode \in RotationModes, frequency \in Thresholds :
           LET w == Configured(Started(config, outcome), enabled, endpoints, mode, frequency)
           IN  pm = w.pm /\ chrome = w.chrome
    /\ observed = 0
    /\ last = NoStep
    /\ sar = SarIdle
    /\ GatewaysIdle
    /\ PeripheralsIdle

ObservedRequest ==
    /\ observed < MaxObserved
    /\ \E rnd \in RandomPicks(pm) :
           LET w == handleRequest(World, rnd)
           IN  pm' = w.pm /\ chrome' = w.chrome
    /\ observed' = observed + 1
    /\ UNCHANGED <<last, sar>>
    /\ UNCHANGED gatewayVars
    /\ UNCHANGED peripheralVars

NextRequests == ObservedRequest

SpecRequests == InitRequests /\ [][NextRequests]_vars

(***************************************************************************)
(* shouldAutoRotate on its own: the arguments are drawn from the samples.  *)
(***************************************************************************)
InitSAR ==
    /\ \E u \in Urls, wl \in Whitelists, bl \in Blacklists :
           sar = [url |-> u, whitelist |-> wl, blacklist |-> bl,
                  called |-> FALSE, result |-> Returned(FALSE)]
    /\ pm = constructor
    /\ chrome = chromeMock
    /\ observed = 0
    /\ last = NoStep
    /\ GatewaysIdle
    /\ PeripheralsIdle

CallShouldAutoRotate ==
    /\ ~sar.called
    /\ sar' = [sar EXCEPT !.called = TRUE,
                          !.result = shouldAutoRotate(sar.url, sar.whitelist, sar.blacklist)]
    /\ UNCHANGED <<pm, chrome, observed, last>>
    /\ UNCHANGED gatewayVars
    /\ UNCHANGED peripheralVars

NextSAR == CallShouldAutoRotate

SpecSAR == InitSAR /\ [][NextSAR]_vars

(***************************************************************************)
(* The gateway registry.  SpecRegistry is the factory called directly;     *)
(* SpecGateways is the controller, which alone holds its factory, with the *)
(* instances in use.  Each step records its call and the registry before   *)
(* it in reg.call.                                                         *)
(***************************************************************************)
WithinRegistryBounds(r) ==
    /\ Len(r.clients) <= MaxClients
    /\ \A i \in 1..Len(r.clients) :
           /\ r.clients[i].requestInterceptors <= MaxInterceptors
           /\ r.clients[i].requests <= MaxUses

RegStep(o, op, url, arg, config) ==
    /\ WithinRegistryBounds(o.r)
    /\ reg' = [r |-> o.r,
               call |-> [op |-> op, url |-> url, arg |-> arg, config |-> config,
                         threw |-> o.threw, gateway |-> o.gateway,
                         constructed |-> o.constructed, pre |-> reg.r]]
    /\ UNCHANGED <<cm, gw>>
    /\ UNCHANGED controllerVars
    /\ UNCHANGED peripheralVars

FactoryCreate ==
    \E url \in RegUrls, config \in {"none", "retries0"} :
        RegStep(create(reg.r, url, ConfigOf(config), url), "create", url, "", config)

FactoryCreateFromTemplate ==
    \E url \in TemplateUrls, templateName \in TemplateNames, overrides \in ConfigNames :
        RegStep(createFromTemplate(reg.r, url, templateName, ConfigOf(overrides), url),
                "createFromTemplate", url, templateName, overrides)

FactoryRemove ==
    \E url \in RegUrls : RegStep(remove(reg.r, url), "remove", url, "", "none")

\* onMessage createAPIGateway
CreateGatewayForURL ==
    \E url \in RegUrls, config \in {"none", "retries0"} :
        RegStep(createAPIGatewayForURL(reg.r, url, ConfigOf(config)),
                "createAPIGatewayForURL", url, "", config)

\* onMessage removeGateway
RemoveGateway ==
    \E url \in RegUrls :
        RegStep(removeGateway(reg.r, url), "removeGateway", url, "", "none")

\* A request through an instance completes: updateMetrics counts it.
GatewayUsed ==
    \E i \in 1..Len(reg.r.clients) :
        RegStep(Outcome([reg.r EXCEPT !.clients[i].requests = @ + 1], FALSE, i, FALSE),
                "use", "", "", "none")

\* createEndpoint(path) on an instance.
EndpointDeclared ==
    \E i \in 1..Len(reg.r.clients) :
        RegStep(Outcome([reg.r EXCEPT !.clients[i].endpoints = @ \cup {"/users"}],
                        FALSE, i, FALSE),
                "createEndpoint", "", "/users", "none")

InitRegistry ==
    /\ pm = constructor
    /\ chrome = chromeMock
    /\ observed = 0
    /\ last = NoStep
    /\ sar = SarIdle
    /\ GatewaysIdle
    /\ PeripheralsIdle

NextRegistry ==
    \/ FactoryCreate
    \/ FactoryCreateFromTemplate
    \/ FactoryRemove

SpecRegistry == InitRegistry /\ [][NextRegistry]_vars

NextGateways ==
    \/ CreateGatewayForURL
    \/ RemoveGateway
    \/ GatewayUsed
    \/ EndpointDeclared

SpecGateways == InitRegistry /\ [][NextGateways]_vars

(***************************************************************************)
(* A CacheManager under set, get and the passing of time.                  *)
(***************************************************************************)
CacheCall(op, key, data, result) ==
    [op |-> op, key |-> key, data |-> data, result |-> result, pre |-> cm.c.cache,
     after |-> cm.call.op, afterKey |-> cm.call.key, afterData |-> cm.call.data]

CacheSet ==
    \E key \in CacheKeys, data \in CacheData :
        /\ cm.c.born < MaxSets
        /\ cm' = [cm EXCEPT !.c = set(cm.c, key, data, cm.now),
                             !.call = CacheCall("set", key, data, Absent)]
        /\ UNCHANGED <<reg, gw>>
        /\ UNCHANGED controllerVars
        /\ UNCHANGED peripheralVars

CacheGet ==
    \E key \in CacheKeys :
        /\ cm' = [cm EXCEPT !.c = get(cm.c, key, cm.now).c,
                             !.call = CacheCall("get", key, "",
                                                get(cm.c, key, cm.now).result)]
        /\ UNCHANGED <<reg, gw>>
        /\ UNCHANGED controllerVars
        /\ UNCHANGED peripheralVars

\* Date.now() advances.
Tick ==
    /\ cm.now < MaxNow
    /\ cm' = [cm EXCEPT !.now = @ + 1, !.call = CacheCall("tick", "", "", Absent)]
    /\ UNCHANGED <<reg, gw>>
    /\ UNCHANGED controllerVars
    /\ UNCHANGED peripheralVars

InitCache ==
    /\ pm = constructor
    /\ chrome = chromeMock
    /\ observed = 0
    /\ last = NoStep
    /\ sar = SarIdle
    /\ reg = RegIdle
    /\ PeripheralsIdle
    /\ gw = DispatchIdle
    /\ \E config \in CachePolicies : cm = CacheState(config)

NextCache ==
    \/ CacheSet
    \/ CacheGet
    \/ Tick

SpecCache == InitCache /\ [][NextCache]_vars

(***************************************************************************)
(* Dispatches through one APIGateway against a network that answers each   *)
(* attempt as it likes.                                                    *)
(***************************************************************************)
DispatchStep(g) ==
    /\ gw' = g
    /\ UNCHANGED <<reg, cm>>
    /\ UNCHANGED controllerVars
    /\ UNCHANGED peripheralVars

Dispatch ==
    \E method \in Methods :
        /\ gw.pc \in {"idle", "done"}
        /\ gw.dispatches < MaxDispatches
        /\ DispatchStep(createHandler(gw, method))

Attempt ==
    \E outcome \in Outcomes :
        /\ gw.pc = "attempt"
        /\ DispatchStep(executeAttempt(gw, outcome))

DelayElapsed ==
    /\ gw.pc = "delay"
    /\ DispatchStep(delayElapsed(gw))

InitDispatch ==
    /\ pm = constructor
    /\ chrome = chromeMock
    /\ observed = 0
    /\ last = NoStep
    /\ sar = SarIdle
    /\ reg = RegIdle
    /\ PeripheralsIdle
    /\ cm = CacheIdle
    /\ \E config \in DispatchConfigs : gw = Dispatcher(config)

NextDispatch ==
    \/ Dispatch
    \/ Attempt
    \/ DelayElapsed

SpecDispatch == InitDispatch /\ [][NextDispatch]_vars

(***************************************************************************)
(* Dispatches through an APIGateway configured with interceptors and a     *)
(* rate limiter.                                                           *)
(***************************************************************************)
InterceptorLists ==
    {<<>>, <<"passes">>, <<"passes", "passes">>, <<"passes", "throws">>,
     <<"throws", "passes">>}

RateLimit == [maxRequests |-> 2, windowMs |-> 100]

PipelineConfigs ==
    {Spread([retries |-> 1, caching |-> caching,
             interceptors |-> [request |-> request, response |-> response]],
            limit) :
        caching \in {CachingOff, Caching(300000, 50)},
        request \in InterceptorLists,
        response \in InterceptorLists,
        limit \in {<<>>, [rateLimit |-> RateLimit]}}

RequestInterceptor ==
    /\ gw.pc = "request"
    /\ DispatchStep(requestInterceptor(gw))

Acquired ==
    /\ gw.pc = "acquire"
    /\ DispatchStep(acquired(gw))

ResponseInterceptor ==
    /\ gw.pc = "response"
    /\ DispatchStep(responseInterceptor(gw))

InitPipeline ==
    /\ pm = constructor
    /\ chrome = chromeMock
    /\ observed = 0
    /\ last = NoStep
    /\ sar = SarIdle
    /\ reg = RegIdle
    /\ PeripheralsIdle
    /\ cm = CacheIdle
    /\ \E config \in PipelineConfigs : gw = Dispatcher(config)

NextPipeline ==
    \/ Dispatch
    \/ RequestInterceptor
    \/ Acquired
    \/ Attempt
    \/ ResponseInterceptor
    \/ DelayElapsed

SpecPipeline == InitPipeline /\ [][NextPipeline]_vars

(***************************************************************************)
(* Requests built by a client for calls with any options.                  *)
(***************************************************************************)
BuildRequest ==
    \E method \in Methods, options \in CallOptions :
        /\ req' = [req EXCEPT !.called = TRUE,
                               !.method = method,
                               !.options = options,
                               !.request = buildRequest(req.config, method, options)]
        /\ UNCHANGED <<rl, conn, msg, boot>>
        /\ UNCHANGED controllerVars
        /\ UNCHANGED gatewayVars

InitBuild ==
    /\ pm = constructor
    /\ chrome = chromeMock
    /\ observed = 0
    /\ last = NoStep
    /\ sar = SarIdle
    /\ GatewaysIdle
    /\ rl = LimiterIdle
    /\ conn = ConnectorIdle
    /\ msg = ListenerIdle
    /\ boot = BootIdle
    /\ \E headers \in ClientHeaders, authentication \in Authentications :
           req = RequestBuilder([headers |-> headers,
                                 authentication |-> authentication])

NextBuild == BuildRequest

SpecBuild == InitBuild /\ [][NextBuild]_vars

(***************************************************************************)
(* A RateLimiter under calls of acquire() arriving at any time.            *)
(***************************************************************************)
LimiterStep(r) ==
    /\ rl' = r
    /\ UNCHANGED <<req, conn, msg, boot>>
    /\ UNCHANGED controllerVars
    /\ UNCHANGED gatewayVars

Acquire ==
    /\ Len(rl.arrived) < MaxAcquires
    /\ LimiterStep(acquire(rl))

TimerFires ==
    /\ rl.timer # NoTimer
    /\ rl.now >= rl.timer
    /\ LimiterStep(timerFired(rl))

\* Date.now() advances; a timer that is due fires before time moves on.
TimePasses ==
    /\ rl.now + TickMs <= MaxClock
    /\ ~(rl.timer # NoTimer /\ rl.now >= rl.timer)
    /\ LimiterStep([rl EXCEPT !.now = @ + TickMs])

InitLimiter ==
    /\ pm = constructor
    /\ chrome = chromeMock
    /\ observed = 0
    /\ last = NoStep
    /\ sar = SarIdle
    /\ GatewaysIdle
    /\ req = RequestIdle
    /\ conn = ConnectorIdle
    /\ msg = ListenerIdle
    /\ boot = BootIdle
    /\ \E config \in RateLimits : rl = RateLimiter(config)

NextLimiter ==
    \/ Acquire
    \/ TimerFires
    \/ TimePasses

SpecLimiter == InitLimiter /\ [][NextLimiter]_vars

(***************************************************************************)
(* A LocalProxyConnector whose checkConnection is called by the worker and *)
(* by its own retry timers.                                                *)
(***************************************************************************)
ConnectorStep(c) ==
    /\ conn' = c
    /\ UNCHANGED <<req, rl, msg, boot>>
    /\ UNCHANGED controllerVars
    /\ UNCHANGED gatewayVars

CheckConnection ==
    /\ conn.started < MaxChecks
    /\ ConnectorStep(checkConnectionCalled(conn))

StatusAnswered ==
    /\ conn.inFlight > 0
    /\ \E outcome \in StatusOutcomes :
           ConnectorStep(checkConnectionSettled(conn, outcome))

RetryTimerFires ==
    /\ conn.timers > 0
    /\ conn.started < MaxChecks
    /\ ConnectorStep(retryTimerFired(conn))

InitConnector ==
    /\ pm = constructor
    /\ chrome = chromeMock
    /\ observed = 0
    /\ last = NoStep
    /\ sar = SarIdle
    /\ GatewaysIdle
    /\ PeripheralsIdle

NextConnector ==
    \/ CheckConnection
    \/ StatusAnswered
    \/ RetryTimerFires

SpecConnector == InitConnector /\ [][NextConnector]_vars

(***************************************************************************)
(* The service worker under messages and restarts.  A restart ends the     *)
(* worker and runs the script again: a new ProxyManager with a new factory *)
(* and an empty activeGateways, init() from storage; the browser keeps the *)
(* proxy settings and drops the listeners and lookups of the old worker.   *)
(* A controller whose proxyEndpoints was left undefined is not given       *)
(* further messages.                                                       *)
(***************************************************************************)
MessageStep(o, request) ==
    /\ pm' = o.w.pm
    /\ chrome' = o.w.chrome
    /\ reg' = [reg EXCEPT !.r = o.r]
    /\ msg' = [msg EXCEPT !.storage = o.storage,
                          !.op = "message",
                          !.request = request,
                          !.responded = o.responded,
                          !.response = o.response,
                          !.threw = o.threw,
                          !.pre = [pm |-> pm, r |-> reg.r],
                          !.messages = @ + 1]
    /\ UNCHANGED <<observed, last, sar, cm, gw, req, rl, conn, boot>>

Deliver ==
    /\ msg.messages < MaxMessages
    /\ pm.proxyEndpoints # Missing
    /\ \E request \in Requests :
           \E answer \in Environments(request, pm) :
               MessageStep(onMessage([w |-> World, r |-> reg.r, storage |-> msg.storage],
                                     request, answer),
                           request)

\* The worker after the script ran again, started being init() run from a
\* new ProxyManager.
Restarted(started) ==
    /\ pm' = started.pm
    /\ chrome' = [started.chrome EXCEPT
                      !.proxySettings = IF @ = Cleared THEN chrome.proxySettings ELSE @]
    /\ reg' = RegIdle
    /\ msg' = [msg EXCEPT !.op = "restart",
                          !.request = <<>>,
                          !.responded = FALSE,
                          !.response = undefined,
                          !.threw = FALSE,
                          !.pre = [pm |-> pm, r |-> reg.r],
                          !.restarts = @ + 1]
    /\ UNCHANGED <<observed, last, sar, cm, gw, req, rl, conn, boot>>

Restart ==
    /\ msg.restarts < MaxRestarts
    /\ \E status \in CheckOutcomes :
           Restarted(Started(StoredConfig(msg.storage), status))

InitMessages ==
    /\ observed = 0
    /\ last = NoStep
    /\ sar = SarIdle
    /\ GatewaysIdle
    /\ req = RequestIdle
    /\ rl = LimiterIdle
    /\ conn = ConnectorIdle
    /\ boot = BootIdle
    /\ \E storage \in Stores, status \in CheckOutcomes :
           /\ pm = Started(StoredConfig(storage), status).pm
           /\ chrome = Started(StoredConfig(storage), status).chrome
           /\ msg = Listener(storage)

NextMessages ==
    \/ Deliver
    \/ Restart

SpecMessages == InitMessages /\ [][NextMessages]_vars

(***************************************************************************)
(* Properties.                                                             *)
(***************************************************************************)

\* C1: with rotation enabled, N >= 1 targets and a fixed threshold >= 1,
\* after exactly k * threshold observed requests and no other rotation,
\* stats.rotations is k and requestCount is 0.
C1_RotationsPerThreshold ==
    ( /\ pm.isEnabled
      /\ Len(pm.proxyEndpoints) >= 1
      /\ pm.rotateEveryNRequests >= 1
      /\ observed % pm.rotateEveryNRequests = 0 )
    => /\ pm.stats.rotations = observed \div pm.rotateEveryNRequests
       /\ pm.requestCount = 0

\* Six requests under threshold 3 over two targets: two rotations.
C1_Witness ==
    /\ pm.isEnabled
    /\ Len(pm.proxyEndpoints) = 2
    /\ pm.rotateEveryNRequests = 3
    /\ observed = 6
    /\ pm.stats.rotations = 2
    /\ pm.requestCount = 0

\* A step that counts one rotation is one rotateProxy() call.
Rotated == pm'.stats.rotations = pm.stats.rotations + 1

\* C2: under the sequential policy with N >= 1 targets, every rotateProxy()
\* call moves currentProxyIndex from an index i of the list to (i + 1) mod N.
C2_SequentialAdvance ==
    [][ ( /\ Rotated
          /\ pm.rotationMode = "sequential"
          /\ Len(pm.proxyEndpoints) >= 1 )
        => /\ pm.currentProxyIndex \in 0..(Len(pm.proxyEndpoints) - 1)
           /\ pm'.currentProxyIndex =
                  (pm.currentProxyIndex + 1) % Len(pm.proxyEndpoints) ]_vars

\* C3: whenever the target list is non-empty, currentProxyIndex is an
\* integer with 0 <= currentProxyIndex < proxyEndpoints.length.
C3_IndexWithinTargets ==
    Len(pm.proxyEndpoints) > 0
    => /\ pm.currentProxyIndex # NaN
       /\ 0 <= pm.currentProxyIndex
       /\ pm.currentProxyIndex < Len(pm.proxyEndpoints)

\* C4: with an empty target list rotateProxy() leaves currentProxyIndex as
\* it is while counting one rotation, under either policy.
C4_EmptyListKeepsIndex ==
    [][ (Rotated /\ Len(pm.proxyEndpoints) = 0)
        => pm'.currentProxyIndex = pm.currentProxyIndex ]_vars

\* The blacklist entries that veto sar.url: substrings of the URL, or of its
\* domain when the URL parses.
BlacklistHit ==
    \E i \in 1..Len(sar.blacklist) :
        \/ includes(sar.url, sar.blacklist[i])
        \/ /\ ParseURL(sar.url).ok
           /\ includes(ParseURL(sar.url).hostname, sar.blacklist[i])

\* C5: if a blacklist entry is a substring of the URL's domain or of the
\* full URL, shouldAutoRotate returns false whatever the whitelist holds.
C5_BlacklistVetoes ==
    (sar.called /\ BlacklistHit) => sar.result = Returned(FALSE)

\* The domain shop.com is matched by both lists.
C5_Witness ==
    /\ sar.called
    /\ sar.url = "https://shop.com"
    /\ sar.whitelist = <<"shop">>
    /\ sar.blacklist = <<"shop.com">>
    /\ sar.result = Returned(FALSE)

\* C6: shouldAutoRotate returns false, without throwing, for every URL that
\* does not parse and for every URL whose scheme is not exactly http or
\* https.
C6_FailsClosed ==
    ( /\ sar.called
      /\ \/ ~ParseURL(sar.url).ok
         \/ ParseURL(sar.url).protocol \notin {"http:", "https:"} )
    => sar.result = Returned(FALSE)

\* C7: for an http(s) URL that no blacklist entry matches, shouldAutoRotate
\* returns true when the whitelist is empty, and otherwise exactly when a
\* whitelist entry is a substring of the URL's domain.
C7_WhitelistDecides ==
    ( /\ sar.called
      /\ ParseURL(sar.url).ok
      /\ ParseURL(sar.url).protocol \in {"http:", "https:"}
      /\ ~BlacklistHit )
    => sar.result =
           Returned(\/ Len(sar.whitelist) = 0
                    \/ \E i \in 1..Len(sar.whitelist) :
                           includes(ParseURL(sar.url).hostname, sar.whitelist[i]))

\* An upper-case URL whose lower-cased domain no whitelist entry matches.
C7_Witness ==
    /\ sar.called
    /\ sar.url = "HTTPS://SHOP.COM/a"
    /\ sar.whitelist = <<"SHOP">>
    /\ sar.blacklist = DefaultBlacklist
    /\ sar.result = Returned(FALSE)

\* The last step delivered last.url for tab last.tabId to handleTabUrlChange
\* and shouldAutoRotate accepted it.
EligibleDelivered ==
    /\ last.op \in {"tabUpdated", "tabsGet"}
    /\ last.url # ""
    /\ last.op = "tabUpdated" => last.pre.autoRotateMode
    /\ autoRotateDecision(last.pre, last.url)

RecordedBefore(tabId) == tabId \in DOMAIN last.pre.tabProxyMap

\* C8: for an eligible URL delivered to handleTabUrlChange, a domain other
\* than the one recorded for the tab (or none recorded) gives exactly one
\* rotation and records the domain for that tab, leaving the other tabs'
\* records alone; the recorded domain gives no rotation and no change.
C8_RotateOnNewDomainPerTab ==
    EligibleDelivered =>
        IF /\ RecordedBefore(last.tabId)
           /\ last.pre.tabProxyMap[last.tabId] = hostnameOf(last.url)
        THEN pm = last.pre
        ELSE /\ pm.stats.rotations = last.pre.stats.rotations + 1
             /\ last.tabId \in DOMAIN pm.tabProxyMap
             /\ pm.tabProxyMap[last.tabId] = hostnameOf(last.url)
             /\ \A t \in Tabs \ {last.tabId} :
                    /\ (t \in DOMAIN pm.tabProxyMap) = RecordedBefore(t)
                    /\ RecordedBefore(t) => pm.tabProxyMap[t] = last.pre.tabProxyMap[t]

\* Tab 2 went from shop.com to bank.com while tab 1 stays on shop.com.
C8_Witness ==
    /\ EligibleDelivered
    /\ last.tabId = 2
    /\ RecordedBefore(2)
    /\ last.pre.tabProxyMap[2] = "shop.com"
    /\ DOMAIN pm.tabProxyMap = {1, 2}
    /\ pm.tabProxyMap[1] = "shop.com"
    /\ pm.tabProxyMap[2] = "bank.com"
    /\ pm.stats.rotations = last.pre.stats.rotations + 1

\* C9: while rotation is disabled the host's proxy routing is cleared: no
\* operation applies a routing rule until enable.
C9_DisabledMeansCleared ==
    ~pm.isEnabled => chrome.proxySettings = Cleared

\* Disabled after requests were counted, with a gateway added, several
\* targets and rotations made.
C9_Witness ==
    /\ ~pm.isEnabled
    /\ chrome.proxySettings = Cleared
    /\ pm.stats.totalRequests >= 1
    /\ pm.stats.rotations = MaxRotations
    /\ Len(pm.proxyEndpoints) >= 2
    /\ Len(pm.apiGateways) >= 1
    /\ ~pm.useLocalProxy

\* C10: after any sequence of enableAutoRotate / disableAutoRotate calls one
\* URL-update listener and one tab-activated listener are registered when
\* auto-rotate is enabled, none when it is disabled, and never more than one
\* of each.
C10_SubscribedIffAutoRotate ==
    /\ chrome.onUpdated <= 1
    /\ chrome.onActivated <= 1
    /\ last.toggled =>
           /\ chrome.onUpdated = (IF pm.autoRotateMode THEN 1 ELSE 0)
           /\ chrome.onActivated = (IF pm.autoRotateMode THEN 1 ELSE 0)
           /\ pm.tabUpdateListener = pm.autoRotateMode
           /\ pm.tabActivatedListener = pm.autoRotateMode

\* enableAutoRotate called while auto-rotate was already enabled.
C10_Witness ==
    /\ last.op = "enableAutoRotate"
    /\ last.pre.autoRotateMode
    /\ last.pre.tabUpdateListener
    /\ chrome.onUpdated = 1
    /\ chrome.onActivated = 1

\* ---------------------------------------------------------------------
\* GatewayRegistry (APIGatewayFactory) and the controller's gateway commands.

\* Scheme, host and port of a URL, the port of a default-port URL being "".
SchemeHostPort(url) ==
    <<parseUrl(url).protocol, parseUrl(url).hostname, parseUrl(url).port>>

RegisteredFor(r, url) ==
    {o \in DOMAIN r.gateways :
        SchemeHostPort(r.clients[r.gateways[o]].constructedFor) = SchemeHostPort(url)}

\* C11: create is idempotent by origin. A create(url, config) that returns
\* hands out an instance made for a URL of the same scheme, host and port;
\* it constructs that instance exactly when none was registered for that
\* scheme, host and port, and it never replaces a registered instance.
C11_CreateIdempotentByOrigin ==
    (reg.call.op = "create" /\ ~reg.call.threw) =>
        /\ SchemeHostPort(reg.r.clients[reg.call.gateway].constructedFor)
               = SchemeHostPort(reg.call.url)
        /\ reg.call.constructed <=> RegisteredFor(reg.call.pre, reg.call.url) = {}
        /\ \A o \in DOMAIN reg.call.pre.gateways :
               reg.r.gateways[o] = reg.call.pre.gateways[o]

\* An instance as the constructor leaves it: nothing counted, no endpoint.
Fresh(client) ==
    client.requests = 0 /\ client.errors = 0 /\ client.endpoints = {}

\* C12: removal destroys the client. After removeGateway(url) succeeds the
\* registry holds no client for the origin, and a createAPIGatewayForURL for
\* an origin without an active gateway constructs a fresh client (zero
\* request and error counters, no declared endpoint).
C12_RemovalDestroysClient ==
    /\ (reg.call.op = "removeGateway" /\ ~reg.call.threw) =>
           originOf(reg.call.url) \notin DOMAIN reg.r.gateways
    /\ ( /\ reg.call.op = "createAPIGatewayForURL"
          /\ ~reg.call.threw
          /\ originOf(reg.call.url) \notin DOMAIN reg.call.pre.activeGateways ) =>
           /\ reg.call.constructed
           /\ Fresh(reg.r.clients[reg.call.gateway])

\* C13: createFromTemplate with an unregistered template name fails and
\* leaves the registry's clients unchanged; with a registered name, the
\* constructed client's config is the template merged with the overrides,
\* the caller's value winning on every key both give.
C13_TemplateMergedCallerWins ==
    reg.call.op = "createFromTemplate" =>
        /\ reg.call.arg \notin DOMAIN Templates =>
               /\ reg.call.threw
               /\ reg.r = reg.call.pre
        /\ (reg.call.arg \in DOMAIN Templates /\ reg.call.constructed) =>
               \A key \in DOMAIN reg.r.clients[reg.call.gateway].config :
                   /\ key \in DOMAIN ConfigOf(reg.call.config) =>
                          reg.r.clients[reg.call.gateway].config[key]
                              = ConfigOf(reg.call.config)[key]
                   /\ ( /\ key \notin DOMAIN ConfigOf(reg.call.config)
                         /\ key \in DOMAIN Templates[reg.call.arg] ) =>
                          reg.r.clients[reg.call.gateway].config[key]
                              = Templates[reg.call.arg][key]

\* ---------------------------------------------------------------------
\* ResponseCache (CacheManager).

Entries(cache) == {cache[i] : i \in 1..Len(cache)}

\* The entry inserted before every other entry present.
Earliest(cache) ==
    CHOOSE e \in Entries(cache) : \A f \in Entries(cache) : e.born <= f.born

\* C14: a set that finds the entry count at or above maxSize evicts exactly
\* one entry, the one inserted earliest among those present, whether or not
\* it was read since, and then holds the new entry; no other entry is lost.
C14_EvictsEarliestInserted ==
    (cm.call.op = "set" /\ cm.call.pre # <<>> /\ Len(cm.call.pre) >= cm.c.maxSize) =>
        /\ \A f \in Entries(cm.c.cache) : f.born # Earliest(cm.call.pre).born
        /\ \A e \in Entries(cm.call.pre) \ {Earliest(cm.call.pre)} :
               \E f \in Entries(cm.c.cache) : f.born = e.born /\ f.key = e.key
        /\ \E f \in Entries(cm.c.cache) :
               f.key = cm.call.key /\ f.data = cm.call.data

\* maxSize = 2: key1, key2 were set and read, key3 is set; key1 is gone.
C14_Witness ==
    /\ cm.configured.maxSize = 2
    /\ cm.call.op = "set" /\ cm.call.key = "key3"
    /\ cm.call.after = "get" /\ cm.call.afterKey = "key1"
    /\ Len(cm.call.pre) = 2
    /\ cm.call.pre[1].key = "key1" /\ cm.call.pre[2].key = "key2"
    /\ CachedKeys(cm.c.cache) = {"key2", "key3"}

\* C15: after any sequence of set and get, for any keys and any configured
\* maxSize, the cache holds no more entries than the configured maxSize.
C15_SizeWithinConfiguredMax ==
    Len(cm.c.cache) <= cm.configured.maxSize

\* Date.now() at which the entry of the key was stored.
StoredAt(cache, key) == cache[IndexOfKey(cache, key)].timestamp

GetReturns ==
    cm.call.op = "get" =>
        /\ (cm.call.after = "set" /\ cm.call.afterKey = cm.call.key) =>
               cm.call.result = Found(cm.call.afterData)
        /\ ( /\ cm.call.key \in CachedKeys(cm.call.pre)
              /\ cm.now - StoredAt(cm.call.pre, cm.call.key) > cm.c.ttl ) =>
               /\ cm.call.result = Absent
               /\ cm.call.key \notin CachedKeys(cm.c.cache)
        /\ cm.call.key \notin CachedKeys(cm.call.pre) =>
               /\ cm.call.result = Absent
               /\ cm.call.key \notin CachedKeys(cm.c.cache)

OnlySetStores ==
    \A key \in CacheKeys :
        (key \notin CachedKeys(cm.c.cache) /\ key \in CachedKeys(cm'.c.cache)) =>
            (cm'.call.op = "set" /\ cm'.call.key = key)

\* C16: get(k) right after set(k, v) returns v; a get(k) issued when more
\* than ttl has elapsed since the entry was stored returns absent and
\* removes the entry; a key without an entry reads absent, and only a
\* set(k, ...) gives k an entry again.
C16_FreshReadThenExpiry ==
    []GetReturns /\ [][OnlySetStores]_vars

\* An entry stored at time 0 under ttl 1 is read at time 2.
C16_Witness ==
    /\ cm.call.op = "get"
    /\ cm.c.ttl = 1 /\ cm.now = 2
    /\ cm.call.key \in CachedKeys(cm.call.pre)
    /\ StoredAt(cm.call.pre, cm.call.key) = 0
    /\ cm.call.result = Absent
    /\ cm.call.key \notin CachedKeys(cm.c.cache)

\* ---------------------------------------------------------------------
\* Dispatch pipeline (APIGateway.createHandler).

\* C17: a GET dispatch on a client with caching that finds an unexpired
\* entry under its method+URL key, whatever value was stored, counts one
\* request, returns the stored value and makes no network attempt.
C17_CacheHitSkipsNetwork ==
    (gw.method = "GET" /\ gw.start.hit /\ gw.pc # "idle") =>
        /\ gw.pc = "done"
        /\ gw.attempts = 0
        /\ gw.requests = gw.start.requests + 1
        /\ gw.result = ReturnedData(gw.start.stored)

\* Every network attempt of the running dispatch has thrown.
AllFailed == gw.attempts >= 1 /\ Len(gw.errorsSeen) = gw.attempts

\* C18: for every configured retries >= 0, a dispatch whose every attempt
\* fails makes exactly retries + 1 attempts, then counts one error and
\* throws; before that it has counted none and is still going.
C18_AttemptsAreRetriesPlusOne ==
    AllFailed =>
        IF gw.attempts = gw.configured.retries + 1
        THEN /\ gw.pc = "done"
             /\ gw.result.kind = "threw"
             /\ gw.errors = gw.start.errors + 1
        ELSE /\ gw.attempts < gw.configured.retries + 1
             /\ gw.pc \in {"delay", "attempt"}
             /\ gw.errors = gw.start.errors

Failed == gw.pc = "done" /\ gw.result.kind = "threw"

\* C19: the wait after failed attempt a (from 0) is 2^a * 1000 ms; every
\* failed attempt but the last allowed one is followed by a wait and the
\* last one by none; the failure thrown is the last attempt's.
C19_ExponentialBackoffLastError ==
    /\ \A i \in 1..Len(gw.waits) : gw.waits[i] = (2 ^ (i - 1)) * 1000
    /\ Len(gw.waits) = IF Failed THEN Len(gw.errorsSeen) - 1 ELSE Len(gw.errorsSeen)
    /\ Failed =>
           /\ Len(gw.errorsSeen) = gw.config.retries + 1
           /\ gw.result.value = gw.errorsSeen[Len(gw.errorsSeen)]

\* Four attempts fail, the last one differently from the first.
C19_Witness ==
    /\ Failed
    /\ gw.waits = <<1000, 2000, 4000>>
    /\ Len(gw.errorsSeen) = 4
    /\ gw.errorsSeen[1] # gw.errorsSeen[4]
    /\ gw.result.value = gw.errorsSeen[4]

\* C20: an attempt answered with a 5xx status is a failed attempt: the
\* dispatch does not return its body as a result, and when it ends it has
\* counted an error.
C20_ServerErrorIsFailure ==
    (gw.attempts >= 1 /\ gw.lastStatus >= 500) =>
        /\ gw.result.kind # "returned"
        /\ gw.pc = "done" => gw.errors = gw.start.errors + 1

\* ---------------------------------------------------------------------
\* Request construction (buildRequest, applyAuthentication).

\* The header the configured scheme sets, and the value it gives it.
AuthHeader(auth) ==
    IF auth.type = "apiKey" THEN (IF auth.key = "" THEN "X-API-Key" ELSE auth.key)
    ELSE "Authorization"

Credential(auth) ==
    IF auth.type = "bearer" THEN "Bearer " \o auth.token
    ELSE IF auth.type = "apiKey" THEN auth.value
    ELSE IF auth.type = "basic" THEN "Basic dXNlcjpwYXNz"
    ELSE "Bearer " \o auth.accessToken

\* C21: with authentication configured, the headers of the request built
\* for any call options carry the authentication header with the
\* configured credential; a caller's header neither overrides nor removes it.
C21_AuthHeaderAlwaysSent ==
    (req.called /\ req.config.authentication.type # "none") =>
        /\ AuthHeader(req.config.authentication) \in DOMAIN req.request.headers
        /\ req.request.headers[AuthHeader(req.config.authentication)]
               = Credential(req.config.authentication)

\* ---------------------------------------------------------------------
\* RateLimiter.

\* Calls 1..call all arrived at the moment the first call arrived.
ArrivedTogether(call) ==
    \A j \in 1..call : rl.arrived[j] = rl.arrived[1]

\* C22: of the calls that arrive together on an idle limiter with
\* maxRequests = m >= 1, the first m are admitted at once and the calls of
\* the i-th later batch of m only when at least i * windowMs has passed.
C22_BurstAdmittedInBatches ==
    rl.configured.maxRequests >= 1 =>
        \A k \in 1..Len(rl.admitted) :
            ArrivedTogether(rl.admitted[k].call) =>
                /\ rl.admitted[k].at - rl.arrived[1]
                       >= ((rl.admitted[k].call - 1) \div rl.maxRequests) * rl.windowMs
                /\ rl.admitted[k].call <= rl.maxRequests =>
                       rl.admitted[k].at = rl.arrived[1]

\* C23: for every arrival pattern, no window of length windowMs holds more
\* than maxRequests admissions: the admission that comes maxRequests
\* admissions after another is at least windowMs later.
C23_AdmissionsPerWindow ==
    rl.maxRequests >= 1 =>
        \A i \in 1..Len(rl.admitted) :
            i + rl.maxRequests <= Len(rl.admitted) =>
                rl.admitted[i + rl.maxRequests].at - rl.admitted[i].at >= rl.windowMs

\* C24: with maxRequests >= 1 no call of acquire() is lost: a call that is
\* not admitted is in the queue, a non-empty queue has the drain loop
\* waiting on its timer, in fact every call is admitted by the time
\* acquire() returns, and calls are admitted in the order they arrived.
C24_NoLostWakeupInOrder ==
    rl.configured.maxRequests >= 1 =>
        /\ Len(rl.admitted) + Len(rl.queue) = Len(rl.arrived)
        /\ rl.queue # <<>> => (rl.processing /\ rl.timer # NoTimer)
        /\ rl.queue = <<>>
        /\ \A k \in 1..Len(rl.admitted) :
               /\ rl.admitted[k].call = k
               /\ rl.admitted[k].at >= rl.arrived[k]

\* Three calls on a limiter of one request per window, two of them together
\* and one later, each arriving when the drain loop has just finished.
C24_Witness ==
    /\ rl.configured.maxRequests = 1
    /\ rl.arrived = <<0, 0, 50>>
    /\ Len(rl.admitted) = 3
    /\ ~rl.processing

\* C28: every call of checkConnection that has finished returned a result
\* with a boolean connected and a message, and left isConnected equal to
\* the connected it returned; isConnected is true only if the status call
\* of the check that finished last succeeded.
C28_CheckAlwaysStructured ==
    conn.settled > 0 =>
        /\ "connected" \in DOMAIN conn.result
        /\ "message" \in DOMAIN conn.result
        /\ conn.result.connected \in BOOLEAN
        /\ conn.isConnected = conn.result.connected
        /\ conn.isConnected => conn.outcome = "ok"

\* The same for the status calls that succeed or do not connect at all.
C28_StructuredUnlessNotOk ==
    (conn.settled > 0 /\ conn.outcome # "notOk") =>
        /\ "connected" \in DOMAIN conn.result
        /\ "message" \in DOMAIN conn.result
        /\ conn.isConnected = conn.result.connected
        /\ conn.isConnected => conn.outcome = "ok"

\* A check answered 503 after a check that connected: nothing is returned
\* and the connector still says it is connected.
C28_NotOkAfterConnected ==
    ~(conn.settled = 2 /\ conn.outcome = "notOk" /\ conn.isConnected
          /\ conn.result = undefined)

\* C30: while auto-rotate is off (disableAutoRotate has completed, or it
\* was never enabled) no navigation event, active-tab switch or answer of
\* a tab lookup rotates: the rotation counter and the current index stay.
C30_NoRotationWhileDisabled ==
    [][(~pm.autoRotateMode /\ last'.op \in {"tabUpdated", "tabActivated", "tabsGet"})
           => /\ pm'.stats.rotations = pm.stats.rotations
              /\ pm'.currentProxyIndex = pm.currentProxyIndex]_vars

\* The same for the two listeners alone, leaving out the answer of a tab
\* lookup that was started before the disable.
C30_ListenersSilentWhileDisabled ==
    [][(~pm.autoRotateMode /\ last'.op \in {"tabUpdated", "tabActivated"})
           => /\ pm'.stats.rotations = pm.stats.rotations
              /\ pm'.currentProxyIndex = pm.currentProxyIndex
              /\ chrome'.tabsGet = chrome.tabsGet]_vars

\* The cases of the switch of the listener.
KnownTypes ==
    {"enable", "disable", "rotate", "getStatus", "updateProxies", "updateRotationMode",
     "addAPIGateway", "removeAPIGateway", "updateRotationFrequency", "createAPIGateway",
     "generateEndpoints", "autoGenerateREST", "getAllGateways", "removeGateway",
     "executeGatewayRequest", "enableAutoRotate", "disableAutoRotate",
     "getAutoRotateStatus", "addToWhitelist", "removeFromWhitelist",
     "getCurrentTabDomain", "checkLocalProxy", "createAWSGateway", "deleteAWSGateway",
     "listAWSGateways", "rotateAWSGateway", "getLocalProxyStats", "toggleLocalProxy"}

\* C25: a message whose type is not a known command is answered with the
\* error 'Unknown request type' (an answer is given, it is not a success,
\* nothing is thrown) and the controller, the gateway directory, the host
\* and nothing else changes.
C25_UnknownTypeExplicitError ==
    [][(msg'.op = "message" /\ msg'.messages # msg.messages
            /\ TypeOf(msg'.request) \notin KnownTypes)
           => /\ msg'.responded
              /\ ~msg'.threw
              /\ msg'.response = [error |-> "Unknown request type"]
              /\ "success" \notin DOMAIN msg'.response
              /\ pm' = pm
              /\ chrome' = chrome
              /\ reg' = reg
              /\ msg'.storage = msg.storage]_vars

\* A message of type 'Enable' arrives second, at a controller whose
\* rotation is enabled, and is answered with the error.
C25_Witness ==
    /\ msg.op = "message"
    /\ msg.messages = 2
    /\ msg.request = [type |-> "Enable"]
    /\ msg.responded
    /\ msg.pre.pm.isEnabled
    /\ pm.isEnabled

\* C26: a restart gives back the configuration the controller had before
\* it: target list, enabled flag, rotation policy, rotation threshold,
\* gateway origins, whitelist and auto-rotate flag.
C26_RestartKeepsConfiguration ==
    msg.op = "restart" =>
        Configuration(pm, reg.r) = Configuration(msg.pre.pm, msg.pre.r)

\* The same without the rotation threshold and the gateway origins, for a
\* controller whose target list was not left undefined.
C26_RestartKeepsStoredKeys ==
    (msg.op = "restart" /\ msg.pre.pm.proxyEndpoints # Missing) =>
        /\ pm.proxyEndpoints = msg.pre.pm.proxyEndpoints
        /\ pm.isEnabled = msg.pre.pm.isEnabled
        /\ pm.rotationMode = msg.pre.pm.rotationMode
        /\ pm.autoRotateWhitelist = msg.pre.pm.autoRotateWhitelist
        /\ pm.autoRotateMode = msg.pre.pm.autoRotateMode

\* The threshold set to 2 is 1 again after the restart.
C26_ThresholdLost ==
    ~(msg.op = "restart" /\ msg.pre.pm.rotateEveryNRequests = 2
          /\ pm.rotateEveryNRequests = 1)

\* A gateway created for an origin is gone after the restart although its
\* origin is in storage.
C26_GatewaysLost ==
    ~(msg.op = "restart" /\ gatewayUrls(msg.pre.r) # {} /\ gatewayUrls(reg.r) = {}
          /\ "apiGatewayUrls" \in DOMAIN msg.storage
          /\ msg.storage.apiGatewayUrls = gatewayUrls(msg.pre.r))

\* The rotation state of the controller.
RotationState(p) ==
    [proxyEndpoints |-> p.proxyEndpoints,
     currentProxyIndex |-> p.currentProxyIndex,
     isEnabled |-> p.isEnabled,
     rotationMode |-> p.rotationMode,
     requestCount |-> p.requestCount,
     rotateEveryNRequests |-> p.rotateEveryNRequests,
     apiGateways |-> p.apiGateways,
     rotations |-> p.stats.rotations]

\* The last command failed: it threw, gave no answer, or answered with
\* success false.
CommandFailed ==
    \/ msg.threw
    \/ ~msg.responded
    \/ ("success" \in DOMAIN msg.response /\ ~msg.response.success)

\* The answer is a result or a structured failure, nothing escaped, and a
\* failure left the gateway directory and the rotation state alone.
CommandContained ==
    /\ ~msg.threw
    /\ msg.responded
    /\ ("success" \in DOMAIN msg.response /\ ~msg.response.success)
           => "error" \in DOMAIN msg.response
    /\ CommandFailed =>
           /\ gatewayUrls(reg.r) = gatewayUrls(msg.pre.r)
           /\ RotationState(pm) = RotationState(msg.pre.pm)

\* C27: every command, whatever its payload, is answered with a result or
\* with {success: false, error}; no exception escapes the listener; a
\* command that fails leaves the gateway directory and the rotation state
\* unchanged.
C27_EveryCommandContained ==
    msg.op = "message" => CommandContained

\* The same for every command but three: updateProxies without a list,
\* checkLocalProxy when the status call answers with a response that is not
\* ok, and autoGenerateREST without a resource.
C27_ContainedButThree ==
    (/\ msg.op = "message"
     /\ ~(TypeOf(msg.request) = "updateProxies" /\ "proxies" \notin DOMAIN msg.request)
     /\ ~(TypeOf(msg.request) = "checkLocalProxy" /\ msg.threw)
     /\ ~(TypeOf(msg.request) = "autoGenerateREST"
              /\ "resource" \notin DOMAIN msg.request))
        => CommandContained

\* updateProxies without a list: the exception escapes, nothing is
\* answered and the target list is undefined.
C27_MissingListEscapes ==
    ~(/\ msg.op = "message"
      /\ msg.request = [type |-> "updateProxies"]
      /\ msg.threw
      /\ ~msg.responded
      /\ pm.proxyEndpoints = Missing
      /\ msg.pre.pm.proxyEndpoints # Missing)

\* autoGenerateREST without a resource for an origin that has no gateway:
\* the answer is a failure and the directory has the new gateway.
C27_FailedCommandCreatedGateway ==
    ~(/\ msg.op = "message"
      /\ TypeOf(msg.request) = "autoGenerateREST"
      /\ msg.responded
      /\ ~msg.response.success
      /\ gatewayUrls(reg.r) # gatewayUrls(msg.pre.r))

\* An unparseable URL is answered with a structured failure by each of the
\* five gateway commands, and nothing changes.
C27_UnparseableUrlIsFailure ==
    (/\ msg.op = "message"
     /\ "url" \in DOMAIN msg.request
     /\ msg.request.url = "not-a-valid-url")
        => /\ msg.responded
           /\ ~msg.threw
           /\ msg.response = Failure(InvalidURL)
           /\ pm = msg.pre.pm
           /\ reg.r = msg.pre.r

\* The elements of an array.
Elements(q) == {q[i] : i \in 1..Len(q)}

NoDuplicates(q) == \A i, j \in 1..Len(q) : q[i] = q[j] => i = j

\* C29: the whitelist never holds a domain twice; after addToWhitelist(d)
\* the whitelist that getAutoRotateStatus reports holds d, and after
\* removeFromWhitelist(d) it does not, whatever the whitelist was before.
C29_WhitelistIsASet ==
    /\ NoDuplicates(pm.autoRotateWhitelist)
    /\ (msg.op = "message" /\ TypeOf(msg.request) = "addToWhitelist")
           => msg.request.domain \in Elements(getAutoRotateStatus(pm).whitelist)
    /\ (msg.op = "message" /\ TypeOf(msg.request) = "removeFromWhitelist")
           => msg.request.domain \notin Elements(getAutoRotateStatus(pm).whitelist)
    /\ (msg.op = "message" /\ TypeOf(msg.request) = "getAutoRotateStatus")
           => msg.response.whitelist = pm.autoRotateWhitelist

\* 'shop' is removed from a whitelist that held 'shop' and 'blog'.
C29_Witness ==
    /\ msg.op = "message"
    /\ msg.request = [type |-> "removeFromWhitelist", domain |-> "shop"]
    /\ msg.pre.pm.autoRotateWhitelist = <<"shop", "blog">>
    /\ pm.autoRotateWhitelist = <<"blog">>
    /\ msg.storage.autoRotateWhitelist = <<"blog">>

\* 'shop' is added to a whitelist that holds it already.
C29_WitnessAddTwice ==
    /\ msg.op = "message"
    /\ msg.request = [type |-> "addToWhitelist", domain |-> "shop"]
    /\ msg.pre.pm.autoRotateWhitelist = <<"shop">>
    /\ pm.autoRotateWhitelist = <<"shop">>

\* C31: at most one drain loop of a RateLimiter is active at any time; a
\* call of acquire() made while the flag is set only adds itself to the
\* queue (its process() removes and admits nothing); and the flag is clear
\* only with an empty queue.
C31_SingleDrainLoop ==
    /\ [](/\ rl.loops <= 1
          /\ rl.processing <=> rl.loops = 1
          /\ ~rl.processing => rl.queue = <<>>)
    /\ [][(rl.processing /\ Len(rl.arrived') = Len(rl.arrived) + 1)
             => /\ rl.queue' = Append(rl.queue, Len(rl.arrived) + 1)
                /\ rl.admitted' = rl.admitted
                /\ rl.timer' = rl.timer
                /\ rl.processing']_vars

\* Two calls of acquire() arrived while the drain loop was waiting for its
\* timer: the queue holds all three and one loop is active.
C31_Witness ==
    /\ rl.processing
    /\ rl.timer # NoTimer
    /\ rl.loops = 1
    /\ Len(rl.queue) = 3
    /\ rl.arrived[1] < rl.arrived[2]

\* The step called handleTabUrlChange(tabId, url): the onUpdated listener
\* with a URL while auto-rotate is on, or the answer of a tab lookup with a
\* URL.
HandlerCalled ==
    /\ last'.url # ""
    /\ \/ last'.op = "tabsGet"
       \/ last'.op = "tabUpdated" /\ pm.autoRotateMode

\* C32: handleTabUrlChange(tabId, url) with a URL for which shouldAutoRotate
\* is false changes nothing: not the index, the rotation count, the
\* per-tab domain map or any other field of the controller, not the
\* routing, not the gateway directory; and nothing is thrown at the caller
\* (the step completes).
C32_IneligibleUrlIsNoOp ==
    [][\/ /\ pm' = pm
           /\ chrome'.proxySettings = chrome.proxySettings
           /\ reg' = reg
        \/ ~HandlerCalled
        \/ shouldAutoRotate(last'.url, pm.autoRotateWhitelist,
                            pm.autoRotateBlacklist).ret]_vars

\* A blacklisted URL was loaded in a tab while auto-rotate was on, after an
\* earlier rotation.
C32_Witness ==
    /\ last.op = "tabUpdated"
    /\ last.url = "http://localhost:8080/x"
    /\ last.pre.autoRotateMode
    /\ last.pre.stats.rotations = 1
    /\ pm = last.pre

\* A URL outside the whitelist, a URL that is not HTTP(S) and one that does
\* not parse were handled.
C32_WitnessNotWhitelisted ==
    /\ last.op = "tabsGet"
    /\ last.url = "https://user@bank.com/"
    /\ last.pre.autoRotateWhitelist = <<"shop">>
    /\ pm = last.pre

C32_WitnessNotHttp ==
    /\ last.op = "tabUpdated"
    /\ last.url \in {"ftp://x.com", "not-a-valid-url"}
    /\ last.pre.autoRotateMode

\* The positions of the log where a request interceptor ran.
RequestRuns == {j \in 1..Len(gw.log) : gw.log[j].what = "request"}

\* C33: in one dispatch the request interceptors run one at a time in
\* registration order, each at most once: the j-th thing the dispatch does
\* is the j-th interceptor, for as long as interceptors run.  When the
\* dispatch does anything else (admission by the rate limiter, the cache
\* lookup, a network attempt, a response interceptor) or waits for
\* admission, an attempt or a retry, every registered interceptor has run
\* exactly once before it; so no retry runs one again.
C33_RequestInterceptorsOnceInOrder ==
    /\ \A j \in RequestRuns :
           j <= Len(gw.interceptors.request) /\ gw.log[j].i = j
    /\ (RequestRuns # 1..Len(gw.log)
            \/ gw.pc \in {"acquire", "attempt", "delay", "response"})
           => RequestRuns = 1..Len(gw.interceptors.request)

\* Two interceptors ran before admission, the cache lookup and a first
\* attempt that failed; the second attempt has been made.
C33_Witness ==
    /\ Len(gw.interceptors.request) = 2
    /\ gw.rateLimiter /\ gw.config.caching.on /\ gw.method = "GET"
    /\ gw.attempts = 2
    /\ Len(gw.log) >= 6
    /\ gw.log[3].what = "acquire" /\ gw.log[4].what = "cacheGet"
    /\ gw.log[5] = Did("fetch", 0) /\ gw.log[6].what = "fetch"

\* The step called cache.set or left the cache with other entries.
CacheWritten ==
    \/ gw'.cache.cache # gw.cache.cache
    \/ /\ gw'.log # <<>>
       /\ gw'.log[Len(gw'.log)].what = "cacheSet"
       /\ gw'.log # gw.log

\* C34: the cache of a gateway is written only by a step that accepts the
\* response of a network attempt of a GET dispatch whose status is 2xx, and
\* the entry written is that response under the key of the GET.  A dispatch
\* with another method, a GET answered with another status, a failed
\* dispatch and a cache hit leave every entry as it was.
C34_CacheWrittenOnlyBySuccessfulGet ==
    [][CacheWritten =>
           /\ gw.pc \in {"attempt", "response"}
           /\ gw'.method = "GET"
           /\ Ok(gw'.lastStatus)
           /\ gw'.result.kind = "returned"
           /\ gw'.cache = set(gw.cache, cacheKey("GET"), gw'.result.value, 0)]_vars

\* A successful POST left the entry of an earlier GET alone.
C34_Witness ==
    /\ gw.dispatches = 2 /\ gw.pc = "done"
    /\ gw.method = "POST" /\ gw.lastStatus = 200 /\ gw.result.kind = "returned"
    /\ Len(gw.cache.cache) = 1 /\ gw.cache.cache[1].key = cacheKey("GET")

\* A GET of a caching gateway answered 503 stored nothing.
C34_WitnessNotOk ==
    /\ gw.config.caching.on /\ gw.pc = "done"
    /\ gw.method = "GET" /\ gw.lastStatus = 503 /\ gw.result.kind = "returned"
    /\ gw.cache.cache = <<>>

\* A cache hit and a GET that failed on every attempt left the entry alone.
C34_WitnessHitOrFailed ==
    /\ gw.dispatches = 2 /\ gw.pc = "done" /\ gw.method = "GET"
    /\ Len(gw.cache.cache) = 1
    /\ \/ gw.start.hit /\ gw.attempts = 0
       \/ gw.result.kind = "threw" /\ gw.attempts = 2

(***************************************************************************)
(* The endpoint directory of one APIGateway: this.endpoints, a Map from    *)
(* the declared path to the endpoint record of the latest declaration.     *)
(***************************************************************************)
MaxDeclarations == 3

AllMethods == <<"GET", "POST", "PUT", "DELETE", "PATCH">>

\* The methods argument of createEndpoint: one method name or an array.
One(method) == [array |-> FALSE, methods |-> <<method>>]
Array(methods) == [array |-> TRUE, methods |-> methods]

\* Array.isArray(methods) ? methods : [methods]
methodArray(methods) ==
    IF methods.array THEN methods.methods ELSE <<methods.methods[1]>>

\* createEndpoint(path, methods): this.endpoints.set(path, endpoint).
createEndpoint(endpoints, path, methods) ==
    MapSet(endpoints, path,
           [path |-> normalizePath(path), methods |-> methodArray(methods)])

\* createRESTEndpoints(resource): its five declarations, in order.
declareRESTEndpoints(endpoints, resource) ==
    LET resourcePath == normalizePath(resource)
        list == createEndpoint(endpoints, resourcePath, One("GET"))
        got == createEndpoint(list, resourcePath \o "/:id", One("GET"))
        created == createEndpoint(got, resourcePath, One("POST"))
        updated == createEndpoint(created, resourcePath \o "/:id",
                                  Array(<<"PUT", "PATCH">>))
    IN  createEndpoint(updated, resourcePath \o "/:id", One("DELETE"))

Resources == {"/users", "users", "/posts/"}
EndpointPaths == {"/users", "/users/:id", "/posts", "health"}
MethodArguments == {One("GET"), Array(<<"GET", "POST">>), Array(AllMethods)}

Directory(endpoints, op, path, calls) ==
    [endpoints |-> endpoints, op |-> op, path |-> path, calls |-> calls]

\* The methods the directory records for a path.
Recorded(path) ==
    IF path \in DOMAIN gw.endpoints
    THEN {gw.endpoints[path].methods[i] : i \in 1..Len(gw.endpoints[path].methods)}
    ELSE {}

CreateEndpoint ==
    \E path \in EndpointPaths, methods \in MethodArguments :
        /\ gw.calls < MaxDeclarations
        /\ DispatchStep(Directory(createEndpoint(gw.endpoints, path, methods),
                                  "createEndpoint", path, gw.calls + 1))

CreateRESTEndpoints ==
    \E resource \in Resources :
        /\ gw.calls < MaxDeclarations
        /\ DispatchStep(Directory(declareRESTEndpoints(gw.endpoints, resource),
                                  "createRESTEndpoints", normalizePath(resource),
                                  gw.calls + 1))

InitEndpoints ==
    /\ pm = constructor
    /\ chrome = chromeMock
    /\ observed = 0
    /\ last = NoStep
    /\ sar = SarIdle
    /\ reg = RegIdle
    /\ PeripheralsIdle
    /\ cm = CacheIdle
    /\ gw = Directory(<<>>, "none", "", 0)

NextEndpoints ==
    \/ CreateEndpoint
    \/ CreateRESTEndpoints

SpecEndpoints == InitEndpoints /\ [][NextEndpoints]_vars

\* C35: when createRESTEndpoints(resource) has run, the directory records
\* GET and POST for the resource path and GET, PUT, PATCH and DELETE for
\* the resource path followed by /:id.
C35_EveryCrudRouteRecorded ==
    gw.op = "createRESTEndpoints" =>
        /\ {"GET", "POST"} \subseteq Recorded(gw.path)
        /\ {"GET", "PUT", "PATCH", "DELETE"} \subseteq Recorded(gw.path \o "/:id")

\* What the directory does record after the call: the last declaration of
\* each of the two paths.
C35_LastDeclarationRecorded ==
    gw.op = "createRESTEndpoints" =>
        /\ Recorded(gw.path) = {"POST"}
        /\ Recorded(gw.path \o "/:id") = {"DELETE"}

C35_Witness ==
    /\ gw.op = "createRESTEndpoints" /\ gw.path = "/users" /\ gw.calls = 1

\* The instances the controller's directory (activeGateways) holds.
LiveClients == {reg.r.activeGateways[origin] : origin \in DOMAIN reg.r.activeGateways}

\* C36: every instance in the controller's directory carries exactly one
\* request interceptor and one response interceptor of the controller, the
\* response interceptor being what adds one to stats.totalRequests per
\* answered request.
C36_OneInterceptorPairPerClient ==
    \A i \in LiveClients :
        /\ reg.r.clients[i].requestInterceptors = 1
        /\ reg.r.clients[i].responseInterceptors = 1

\* The instances outside the directory are the ones a removal left in the
\* factory; an instance has as many pairs as it was stored in the directory.
C36_PairPerStore ==
    \A i \in 1..Len(reg.r.clients) :
        /\ reg.r.clients[i].requestInterceptors = reg.r.clients[i].responseInterceptors
        /\ reg.r.clients[i].requestInterceptors >= 1

\* getStats().errorRate, as the fraction <<numerator, denominator>>:
\* this.metrics.requests > 0 ? this.metrics.errors / this.metrics.requests : 0
errorRate(g) == IF g.requests > 0 THEN <<g.errors, g.requests>> ELSE <<0, 1>>

\* C37: in the metrics of a gateway errors never exceed requests, so the
\* error rate getStats reports lies between 0 and 1, and it is not 0 once a
\* dispatch has failed.
C37_ErrorsWithinRequests ==
    /\ gw.errors <= gw.requests
    /\ errorRate(gw)[1] <= errorRate(gw)[2]
    /\ gw.errors > 0 => errorRate(gw)[1] > 0

\* What the metrics do satisfy: requests counts the dispatches that returned
\* (from the network or the cache), errors the dispatches that threw after
\* their last attempt, and no dispatch is counted in both.
C37_DisjointCounters ==
    (gw.pc \in {"idle", "done"}) => gw.requests + gw.errors = gw.dispatches

\* The positions of the log where executeRequest was called.
Fetches == {j \in 1..Len(gw.log) : gw.log[j].what = "fetch"}

\* C38: within one dispatch a network attempt is made only if every earlier
\* attempt of the dispatch failed itself (executeRequest threw): after an
\* attempt that was answered there is no further attempt.
C38_NoAttemptAfterAnsweredAttempt ==
    \A j \in Fetches, k \in Fetches : j < k => gw.log[j].i = 0

\* What the retry loop does guarantee: between two attempts something
\* inside the try block threw, the attempt or a response interceptor, and
\* an attempt whose response passed every interceptor is the last one.
C38_AttemptOnlyAfterThrow ==
    /\ \A j \in Fetches, k \in Fetches :
           j < k => \/ gw.log[j].i = 0
                    \/ /\ gw.log[k - 1].what = "response"
                       /\ gw.interceptors.response[gw.log[k - 1].i] = "throws"
    /\ (gw.pc = "done" /\ gw.result.kind = "returned" /\ gw.attempts > 0)
           => gw.log[Len(gw.log)].what \in {"fetch", "response", "cacheSet"}

(***************************************************************************)
(* A starting worker: proxyManager.init() is called, the onMessage         *)
(* listener is registered while init() is suspended at its first await,    *)
(* and commands are handled whenever init() is suspended.                  *)
(***************************************************************************)
MaxCommands == 2

\* init() resumes with the answer of chrome.storage.local.get and runs to
\* its next await or to its end.
configLoaded(w, b) ==
    LET loaded == initLoad(w, b.config)
    IN  IF loaded.pm.useLocalProxy
        THEN [w |-> loaded, b |-> [b EXCEPT !.pc = "connecting"]]
        ELSE [w |-> initFinish(loaded), b |-> [b EXCEPT !.pc = "finished"]]

\* init() resumes with the result of connectToLocalProxy, which throws on
\* the undefined result of a status that is not ok.
connectionChecked(w, b, outcome) ==
    IF outcome = "notOk"
    THEN [w |-> checkConnection(w, outcome), b |-> [b EXCEPT !.pc = "failed"]]
    ELSE [w |-> initFinish(checkConnection(w, outcome)),
          b |-> [b EXCEPT !.pc = "finished"]]

BootStep(o) ==
    /\ pm' = o.w.pm
    /\ chrome' = o.w.chrome
    /\ boot' = o.b
    /\ UNCHANGED <<observed, last, sar, req, rl, conn, msg>>
    /\ UNCHANGED gatewayVars

Suspended == boot.pc \in {"loading", "connecting"}
Commanding == Suspended /\ boot.commands < MaxCommands

ConfigLoaded ==
    /\ boot.pc = "loading"
    /\ BootStep(configLoaded(World, boot))

ConnectionChecked ==
    \E outcome \in CheckOutcomes :
        /\ boot.pc = "connecting"
        /\ BootStep(connectionChecked(World, boot, outcome))

\* case 'enable'
EnableCommand ==
    /\ Commanding
    /\ BootStep([w |-> enable(World),
                 b |-> [boot EXCEPT !.switched = "enable", !.commands = @ + 1]])

\* case 'disable'
DisableCommand ==
    /\ Commanding
    /\ BootStep([w |-> disable(World),
                 b |-> [boot EXCEPT !.switched = "disable", !.commands = @ + 1]])

\* case 'updateProxies'
UpdateProxiesCommand ==
    \E endpoints \in TargetLists \ {<<>>} :
        /\ Commanding
        /\ BootStep([w |-> updateProxyEndpoints(World, endpoints),
                     b |-> [boot EXCEPT !.targets = endpoints, !.commands = @ + 1]])

InitBoot ==
    /\ pm = constructor
    /\ chrome = chromeMock
    /\ observed = 0
    /\ last = NoStep
    /\ sar = SarIdle
    /\ GatewaysIdle
    /\ req = RequestIdle
    /\ rl = LimiterIdle
    /\ conn = ConnectorIdle
    /\ msg = ListenerIdle
    /\ \E config \in Configs : boot = Boot("loading", config)

NextBoot ==
    \/ ConfigLoaded
    \/ ConnectionChecked
    \/ EnableCommand
    \/ DisableCommand
    \/ UpdateProxiesCommand

SpecBoot == InitBoot /\ [][NextBoot]_vars

\* C39: a command handled while init() is suspended is not overridden when
\* init() resumes: after a disable command (and no enable command since)
\* rotation is disabled and the proxy settings are cleared, and the targets
\* are the list the last updateProxies command set.
C39_CommandsSurviveInit ==
    /\ boot.switched = "disable"
           => ~pm.isEnabled /\ chrome.proxySettings = Cleared
    /\ boot.targets # NotCommanded => pm.proxyEndpoints = boot.targets

\* What init() does keep: resuming from the connection check it neither
\* enables a controller that is disabled nor changes the targets.
C39_ConnectionCheckKeepsCommands ==
    [][(boot.pc = "connecting" /\ boot'.pc # "connecting")
           => /\ pm'.proxyEndpoints = pm.proxyEndpoints
              /\ ~pm.isEnabled
                     => ~pm'.isEnabled /\ chrome'.proxySettings = chrome.proxySettings]_vars

\* What generateProxyConfig reads.
RoutingInputs(p) ==
    <<p.useLocalProxy, p.localProxyConnected, p.proxyEndpoints,
      p.currentProxyIndex, p.apiGateways>>

\* The proxy settings are the rule generateProxyConfig derives from the
\* instance; a call that throws (proxyEndpoints undefined, no target at the
\* index) derives none.
RoutingCurrent(p, settings) ==
    \/ p.proxyEndpoints = Missing
    \/ generateProxyConfig(p).threw
    \/ settings = generateProxyConfig(p).config

\* C40: while rotation is enabled the proxy settings applied to the host
\* are the rule generateProxyConfig derives from the current state, and
\* every step that changes something generateProxyConfig reads (the
\* connection flag, useLocalProxy, the targets, the index, the gateway
\* endpoints) and leaves rotation enabled applies the rule again.
C40_RoutingFollowsState ==
    /\ [](pm.isEnabled => RoutingCurrent(pm, chrome.proxySettings))
    /\ [][(pm'.isEnabled /\ RoutingInputs(pm') # RoutingInputs(pm))
             => RoutingCurrent(pm', chrome'.proxySettings)]_vars

\* The steps that do apply the rule again: every command other than the
\* local-proxy ones, handled by a controller whose settings were current,
\* leaves them current.
C40_OtherCommandsReapply ==
    [][(/\ msg'.op = "message"
        /\ TypeOf(msg'.request) \notin {"toggleLocalProxy", "checkLocalProxy"}
        /\ pm.isEnabled /\ pm'.isEnabled
        /\ RoutingCurrent(pm, chrome.proxySettings))
           => RoutingCurrent(pm', chrome'.proxySettings)]_vars

====
